---- MODULE Spec2Model ----
(***************************************************************************)
(* A model of the render-diff-and-visualize pipeline of react-safe-fiber:  *)
(*   - createFiberVisitor          (src/src/scan/index.ts, second part)    *)
(*   - instrument                  (src/src/performance.ts, second part)   *)
(*   - the scan overlay: outlineFiber, flushOutlines, getCanvasEl, stop,   *)
(*     cleanup, init               (src/src/scan/index.ts, first part)     *)
(*   - mergeRects, getRectMap, toggleInspectMode        (same file)        *)
(* The specifications share the variables: SpecVisitor drives the visitor  *)
(* alone, SpecHook drives instrument and the hook, Spec drives the scan    *)
(* overlay (which uses the visitor as its commit handler).  SpecLifecycle, *)
(* SpecControl, SpecPaint and SpecFallback drive parts of the overlay on   *)
(* smaller inputs, SpecGeometry drives the rectangle functions.            *)
(*   - the timing statistics: vnodeHook, diffedHook, commitHook,           *)
(*     getTimings, clearPerformanceData (src/src/performance.ts, first     *)
(*     part), driven by SpecPerf and, for tree durations, by SpecTree      *)
(*   - the resize, scroll and hover listeners of the overlay, driven by    *)
(*     SpecEvents (paint loop and its callers) and SpecTimers (the timers) *)
(*   - the hooks of the host's options object: initPerformanceMonitoring,  *)
(*     cleanupPerformanceMonitoring (performance.ts), driven by SpecOptions*)
(*   - the focus highlight of src/src/extract/index.ts (lerp, draw,        *)
(*     animate), driven by SpecFocus with weak fairness on the frames      *)
(*   - isElementInteractive (src/unnamed/part_002): SpecInteractive        *)
(*   - createDevToolsHook, initDevTools (performance.ts): SpecDevTools     *)
(*   - installRDTHook, getRDTHook (src/unnamed/part_004): SpecRdt          *)
(* SpecDispatch drives the handlers that choose between the worker and the *)
(* main thread, SpecScroll the scroll listener on a longer page.           *)
(* SpecGrow drives the overlay while the tree grows between commits, and   *)
(* SpecStall, with weak fairness on the interval, the observer callback    *)
(* and the animation frame, drives a flush that has nothing to observe.    *)
(***************************************************************************)
EXTENDS Integers, Sequences, FiniteSets, TLC

\* ------------------------------------------------------------------ bounds
\* Number of nodes of a render tree (node 1 is the root).
NumNodes == 4
\* Calls of instrument in the hook specification.
MaxInstruments == 2
\* Notifications the host delivers in the hook specification.
MaxNotifications == 2
\* Largest render count a pending blueprint reaches.
MaxCount == 2
\* Blueprints created in one behaviour.
MaxBlueprints == 4
\* Blueprints created in one behaviour of the lifecycle and paint specifications.
MaxLifecycleBlueprints == 2
\* Blueprints created in one behaviour of the dispatch specification.
MaxDispatchBlueprints == 1
\* flushOutlines calls awaiting their rectangles at one time.
MaxInFlight == 2
\* Largest left / top coordinate of a rectangle given to mergeRects.
MaxCoord == 1
\* Largest width / height of a rectangle.
MaxSize == 2
\* Longest list given to mergeRects.
MaxRects == 2
\* Elements given to getRectMap.
MaxElements == 2
\* requestAnimationFrame callbacks of one kind waiting at one time.
MaxPendingFrames == 2
\* Largest value of window.scrollY.
MaxScroll == 1
\* Largest value of window.scrollY in the scroll specification.
MaxScrollFar == 2
\* Events of a class counted while its timer waits.
MaxCoalesced == 1
\* Paint frames an outline lives for (the decay horizon).
TotalFrames == 2

\* Nodes given to the timing hooks and to getTimings.
NumPerfNodes == 3
\* Largest value of performance.now().
MaxTime == 2
\* Largest actualDuration the host reports for a node.
MaxDuration == 2
\* TimingData objects created in one behaviour.
MaxTimings == 2
\* TimingData objects created in one behaviour of the tree-duration specification.
MaxTreeTimings == 1
\* Invocations of the hooks of options by the host.
MaxInvocations == 3
\* Largest x / y of the focused element's rectangle.
MaxPosition == 5
\* The times an element is focused or the focused element moves.
MaxMoves == 3
\* Calls of inject on the DevTools hook.
MaxInjections == 5
\* Calls of getRDTHook.
MaxHookCalls == 3
\* Calls the engine's stack holds.
MaxStackDepth == 3
\* Animation-frame callbacks of the hooks waiting at one time.
MaxCallbacks == 2

Null == 0
Nodes == 1..NumNodes

VARIABLES
    \* --- visitor (createFiberVisitor) ---
    vTree,        \* the tree of the last commit: [kind, alternate, parent]
    vThrows,      \* nodes for which the onRender callback throws
    vHasOnError,  \* whether an onError handler was supplied
    vWork,        \* nodes whose flags carry PerformedWork in the last commit
    vLog,         \* nodes passed to onRender by the last visit, in call order
    vErrors,      \* the errors onError received during the last visit
    vPropagated,  \* whether the last visit threw into its caller
    vCommits      \* commits the visitor has observed: 0, 1, or 2 for "more than one"

VARIABLES
    \* --- the global hook and instrument ---
    hookPresent,  \* window.__REACT_DEVTOOLS_GLOBAL_HOOK__ exists
    hook,         \* the hook's handler of each event: a function value
    hook0,        \* the hook's handlers before any instrument call
    closures,     \* the wrapper closures instrument created: [prev, fn]
    instrCalls,   \* the instrument calls so far: the events each supplied a handler for
    notifs,       \* the notifications the host delivered: [ev, rid, root]
    calls         \* every handler invocation so far, in order: [h, rid, root]

VARIABLES
    \* --- the scan overlay ---
    kinds,            \* per node: "host", "named" (composite with a display name),
                      \*   "anon" (composite without one), "bare" (composite with a
                      \*   display name that renders no host element)
    loaded,           \* the module body has run (init was called)
    attached,         \* init registered its handlers with the hook
    activated,        \* onActive has run
    stopFlag,         \* globalThis.__REACT_SCAN_STOP__
    hasCleanedUp,     \* let hasCleanedUp
    canvas,           \* canvas !== null
    worker,           \* worker !== null
    ctx,              \* ctx !== null
    hostAttached,     \* a [data-react-scan] host element is in the document
    inspectActive,    \* inspectState.isActive
    listeners,        \* registrations per listener: mouseover, click, resize, scroll, keydown
    intervals,        \* running setInterval flush timers
    animationFrameId, \* animationFrameId !== null
    pendingFrames,    \* requestAnimationFrame(draw) callbacks not yet run
    blueprintMap,     \* the Blueprint of each node that has one
    blueprintMapKeys, \* the insertion-ordered key set
    created,          \* blueprints created so far (a blueprint's identity)
    inflight,         \* elements captured by each flushOutlines call awaiting getRectMap
    records,          \* the outline records emitted so far, in order
    activeOutlines,   \* the outline [count, frame] of each id that has one
    pendingCalls,     \* per node: outlineFiber calls since its blueprint was last consumed
    booted,           \* the overlay's visitor has observed its first commit
    bootIdle,         \* nodes outlined on the first commit that did no work since
    blueprintCap,     \* blueprints the host's commits create in this behaviour
    reportable,       \* the rectangles the intersection observer may report
    commitInputs,     \* what the host's commits look like: [hidden, work, committed]
    scrollCap,        \* the largest window.scrollY of this behaviour
    setup,            \* how the worker setup of getCanvasEl went
    posted,           \* the last draw-outlines message posted to the worker
    control           \* the last calls of stop / toggleInspectMode, when consecutive

VARIABLES
    \* --- the overlay's event handlers ---
    isResizeScheduled, \* let isResizeScheduled
    resizeTimers,      \* setTimeout callbacks of the resize handler not yet run
    isScrollScheduled, \* let isScrollScheduled
    scrollTimers,      \* setTimeout callbacks of the scroll handler not yet run
    scrollY,           \* window.scrollY
    prevScrollY,       \* let prevScrollY
    scrollFrames,      \* the deltaY of each requested updateScroll frame not yet run
    scrollDelivered,   \* the sum of the deltaY posted to the worker or given to updateScroll
    hoveredRect,       \* inspectState.hoveredRect (<<>> for null, else <<rect>>)
    coalesced          \* per event class, the events that arrived while its timer waited

VARIABLES
    \* --- calls of the geometry functions on their own ---
    gPhase,       \* which function is called: "merge", "rects", or "idle"
    gRects,       \* the argument of mergeRects
    gReport,      \* per observed element, the entry the intersection observer reports
    gDone,        \* the call was made
    gResult       \* what the call returned (mergeRects) or resolved to (getRectMap)

VARIABLES
    \* --- timing statistics (performance.ts) ---
    pShape,                \* per node: "component" (type is a function with a prototype),
                           \*   "arrow" (a function without one), "host" (type is a string)
    actualDuration,        \* node.actualDuration of each node (0 when it has none)
    now,                   \* performance.now()
    timingData,            \* the TimingData objects created so far
    componentTimings,      \* per key, the TimingData object it maps to (Null for none)
    memoizedTreeDurations, \* per key, the memoized tree duration (Absent for none)
    pendingUpdates,        \* the Set pendingUpdates
    isProcessingUpdates,   \* let isProcessingUpdates
    frameCallbacks,        \* requestAnimationFrame callbacks of the hooks not yet run
    timingCap              \* TimingData objects the hooks create in this behaviour

VARIABLES
    \* --- the hooks of the host's options object (performance.ts) ---
    preHooks,      \* per hook of options, what it held before the module loaded:
                   \*   "host" (a hook of the host or of another library) or "undefined"
    options,       \* per hook of options, what it holds: "undefined", "host" or
                   \*   "monitor" (vnodeHook, diffedHook, commitHook, bound or not)
    original,      \* originalVNode, originalDiff, originalCommit, by hook
    hostCalls,     \* per hook, the calls the hook of preHooks received
    invoked        \* per hook, the times the host invoked options' hook

optVars == <<preHooks, options, original, hostCalls, invoked>>

VARIABLES
    \* --- the focus highlight (extract/index.ts) ---
    focusedElement,  \* an element is focused (focusedElement !== null)
    focusText,       \* the label of the focused element is a non-empty string
    focusRect,       \* where the focused element is: <<x, y>> of its rectangle, or
                     \*   <<>> when getRectMap has none for it (it is out of view)
    prevXY,          \* <<prevX, prevY>>, or <<>> while they are undefined
    isAnimating,     \* let isAnimating
    animateFrames,   \* requestAnimationFrame(animate) callbacks not yet run
    moves            \* the times an element was focused or the focused element moved

focusVars == <<focusedElement, focusText, focusRect, prevXY, isAnimating, animateFrames, moves>>

VARIABLES
    \* --- calls of isElementInteractive ---
    iElement,  \* the element given: its nodeName, attributes, role and parent
    iDone,     \* the call was made
    iResult    \* how the call ended: "true", "false", or "RangeError" when it threw

interVars == <<iElement, iDone, iResult>>

VARIABLES
    \* --- the DevTools hook of createDevToolsHook (performance.ts) ---
    devtoolsHook,      \* window.__REACT_DEVTOOLS_GLOBAL_HOOK__ was created by createDevToolsHook
    devI,              \* let i of the call that created the hook
    devRenderers,      \* const renderers of that call: the renderer of each id
    devHookRenderers,  \* devtoolsHook.renderers: the renderer of each id
    devInjected        \* the calls of inject made: the renderer given, the id returned

devVars == <<devtoolsHook, devI, devRenderers, devHookRenderers, devInjected>>

VARIABLES
    \* --- the global hook of installRDTHook / getRDTHook ---
    rdtHook,        \* globalThis.__REACT_DEVTOOLS_GLOBAL_HOOK__: "absent", "bippy" (of
                    \*   installRDTHook) or "foreign" (of React DevTools)
    rdtOnActive,    \* installRDTHook was given the onActive callback
    rdtActive,      \* rdtHook._instrumentationIsActive
    rdtRenderers,   \* const renderers of installRDTHook: the renderer of each id
    rdtGets,        \* the calls of getRDTHook(onActive) made
    onActiveCalls   \* the times the onActive callback was invoked

rdtVars == <<rdtHook, rdtOnActive, rdtActive, rdtRenderers, rdtGets, onActiveCalls>>

\* the state beside the timing statistics and the hooks of options
auxVars == <<focusVars, interVars, devVars, rdtVars>>

timingVars == <<pShape, actualDuration, now, timingData, componentTimings, memoizedTreeDurations,
                pendingUpdates, isProcessingUpdates, frameCallbacks, timingCap>>

perfVars == <<timingVars, optVars, auxVars>>

eventVars == <<isResizeScheduled, resizeTimers, isScrollScheduled, scrollTimers, scrollY,
               prevScrollY, scrollFrames, scrollDelivered, hoveredRect, coalesced>>

scanVars == <<kinds, loaded, attached, activated, stopFlag, hasCleanedUp, canvas, worker, setup, ctx,
              hostAttached, inspectActive, listeners, intervals, animationFrameId,
              pendingFrames, blueprintMap, blueprintMapKeys, created, inflight, records,
              activeOutlines, pendingCalls, booted, bootIdle, blueprintCap, reportable,
              commitInputs, scrollCap, setup, posted, control, eventVars>>

visitorVars == <<vTree, vThrows, vHasOnError, vWork, vLog, vErrors, vPropagated, vCommits>>
hookVars == <<hookPresent, hook, hook0, closures, instrCalls, notifs, calls>>

geoVars == <<gPhase, gRects, gReport, gDone, gResult>>

vars == <<visitorVars, hookVars, scanVars, geoVars, perfVars>>

\* ------------------------------------------------------------------ trees
\* A render tree over Nodes. parent[n] < n is the parent of n (0 for the
\* root); the children of a node are ordered by identity. kind tells whether
\* the nodes are Fibers (they have an `alternate` field) or Preact VNodes;
\* alternate tells whether the root Fiber's alternate is non-null.
Parents == { p \in [Nodes -> 0..NumNodes] :
               /\ p[1] = 0
               /\ \A n \in Nodes \ {1} : p[n] \in 1..(n - 1) }

Trees == [kind : {"fiber", "vnode"}, alternate : BOOLEAN, parent : Parents]

SetToSeq(S) ==
    LET RECURSIVE Build(_)
        Build(T) == IF T = {} THEN <<>>
                    ELSE LET m == CHOOSE x \in T : \A y \in T : x <= y
                         IN <<m>> \o Build(T \ {m})
    IN Build(S)

\* node.props.children of a VNode, in order
Children(t, n) == SetToSeq({m \in Nodes : t.parent[m] = n})

\* node.child of a Fiber: the first child, or null
Child(t, n) == IF Children(t, n) = <<>> THEN Null ELSE Head(Children(t, n))

\* node.sibling of a Fiber: the next child of the same parent, or null
Sibling(t, n) ==
    LET later == {m \in Nodes : m > n /\ t.parent[m] = t.parent[n] /\ t.parent[n] # 0}
    IN IF later = {} THEN Null ELSE CHOOSE m \in later : \A k \in later : m <= k

\* isFiber: the node has an `alternate` field
isFiber(t, n) == n # Null /\ t.kind = "fiber"

\* ------------------------------------------------------------------ visitor
\* The traversal state: the onRender calls made so far and whether onRender
\* threw (an exception unwinds every enclosing mountFiber call).
NoCalls == [log |-> <<>>, thrown |-> FALSE]

\* onRender(node, 'mount'): the call is made; it throws for the nodes of throws
onRender(throws, node, st) ==
    [log |-> Append(st.log, node), thrown |-> node \in throws]

RECURSIVE mountFiber(_, _, _, _, _)
RECURSIVE mountChildren(_, _, _, _)

\* childArray.forEach(child => mountFiber(child, false))
mountChildren(t, throws, kids, st) ==
    IF kids = <<>> \/ st.thrown THEN st
    ELSE mountChildren(t, throws, Tail(kids), mountFiber(t, throws, Head(kids), FALSE, st))

\* mountFiber with the loop advancing to the sibling before descending
mountFiberSiblingFirst(t, throws, node, traverseSiblings, st) ==
    IF node = Null \/ st.thrown THEN st
    ELSE LET s1 == onRender(throws, node, st) IN
         IF s1.thrown THEN s1
         ELSE IF isFiber(t, node)
              THEN LET s2 == mountFiber(t, throws,
                                        IF traverseSiblings THEN Sibling(t, node) ELSE Null,
                                        traverseSiblings, s1)
                   IN IF Child(t, node) # Null
                      THEN mountFiber(t, throws, Child(t, node), TRUE, s2)
                      ELSE s2
              ELSE mountChildren(t, throws, Children(t, node), s1)

\* mountFiber(firstChild, traverseSiblings): the while loop over node
mountFiber(t, throws, node, traverseSiblings, st) ==
    IF node = Null \/ st.thrown THEN st
    ELSE LET s1 == onRender(throws, node, st) IN
         IF s1.thrown THEN s1
         ELSE IF isFiber(t, node)
              THEN LET s2 == IF Child(t, node) # Null
                             THEN mountFiber(t, throws, Child(t, node), TRUE, s1)
                             ELSE s1
                   IN mountFiber(t, throws,
                                 IF traverseSiblings THEN Sibling(t, node) ELSE Null,
                                 traverseSiblings, s2)
              ELSE mountChildren(t, throws, Children(t, node), s1)

\* wasMounted = !isFiber(rootFiber) || rootFiber.alternate === null
wasMounted(t) == ~isFiber(t, 1) \/ ~t.alternate

\* the try block of the visitor: traverse from root.current when
\* !wasMounted && isMounted (isMounted is the constant true)
tryBlock(t, throws) ==
    IF ~wasMounted(t) /\ TRUE THEN mountFiber(t, throws, 1, FALSE, NoCalls) ELSE NoCalls

\* a catch block that forwards to onError and rethrows all the same
catchBlockRethrow(hasOnError, thrown) ==
    [errors |-> IF thrown /\ hasOnError THEN 1 ELSE 0,
     propagated |-> thrown]

\* the catch block: forward to onError when supplied, else rethrow
catchBlock(hasOnError, thrown) ==
    [errors |-> IF thrown /\ hasOnError THEN 1 ELSE 0,
     propagated |-> thrown /\ ~hasOnError]

\* One call of the function createFiberVisitor returns, for one commit.
Visit(t, throws, hasOnError, work) ==
    LET r == tryBlock(t, throws)
        c == catchBlock(hasOnError, r.thrown)
    IN /\ vTree' = t
       /\ vThrows' = throws
       /\ vHasOnError' = hasOnError
       /\ vWork' = work
       /\ vLog' = r.log
       /\ vErrors' = c.errors
       /\ vPropagated' = c.propagated
       /\ vCommits' = IF vCommits = 0 THEN 1 ELSE 2

\* onRender throws for at most one node of a commit's tree
ThrowSets == {{}} \cup {{n} : n \in Nodes}

\* the nodes that did work in a commit: none, one of them, or all
WorkSets == {{}, Nodes} \cup {{n} : n \in Nodes}

\* A commit of the host renderer: the tree keeps its shape and its kind of
\* nodes; the root's alternate, the rendered nodes and the failing callback
\* vary from commit to commit.
VisitCommit ==
    \E alt \in BOOLEAN, throws \in ThrowSets, work \in WorkSets :
        Visit([vTree EXCEPT !.alternate = alt], throws, vHasOnError, work)

VisitorIdle ==
    /\ vTree = [kind |-> "fiber", alternate |-> FALSE, parent |-> [n \in Nodes |-> n - 1]]
    /\ vThrows = {}
    /\ vHasOnError = TRUE
    /\ vWork = {}
    /\ vLog = <<>>
    /\ vErrors = 0
    /\ vPropagated = FALSE
    /\ vCommits = 0

VisitorInit ==
    /\ vTree \in Trees
    /\ vTree.alternate = FALSE
    /\ vThrows = {}
    /\ vHasOnError \in BOOLEAN
    /\ vWork = {}
    /\ vLog = <<>>
    /\ vErrors = 0
    /\ vPropagated = FALSE
    /\ vCommits = 0

\* ------------------------------------------------------------------ hook
\* The events of the hook that instrument can intercept.
Events == {"onCommitFiberRoot", "onCommitFiberUnmount", "onPostCommitFiberRoot"}

\* A function value stored in the hook: Null (undefined), the subscriber
\* that was there before instrumentation (Subscriber), or the index of a
\* wrapper closure in closures.
Subscriber == -1

\* The identity of a callable: the pre-existing subscriber of an event
\* (reg 0), or the handler the reg-th instrument call supplied for it.
Callable(reg, ev) == [reg |-> reg, ev |-> ev]

RECURSIVE InvokeHandlerFirst(_, _, _)
\* a wrapper that calls its own handler before the previous one
InvokeHandlerFirst(cl, ev, fn) ==
    IF fn = Null THEN <<>>
    ELSE IF fn = Subscriber THEN <<Callable(0, ev)>>
    ELSE <<cl[fn].fn>> \o
         (IF cl[fn].prev # Null THEN InvokeHandlerFirst(cl, ev, cl[fn].prev) ELSE <<>>)

RECURSIVE Invoke(_, _, _)
\* Calling the function value fn: the callables that run, in order. A
\* wrapper (rendererID, root) => { if (prev) prev(rendererID, root);
\* handler(rendererID, root); } runs the previous value, then its handler.
Invoke(cl, ev, fn) ==
    IF fn = Null THEN <<>>
    ELSE IF fn = Subscriber THEN <<Callable(0, ev)>>
    ELSE (IF cl[fn].prev # Null THEN Invoke(cl, ev, cl[fn].prev) ELSE <<>>) \o
         <<cl[fn].fn>>

RECURSIVE Wrap(_, _, _, _)
\* The three if-blocks of instrument for the events of todo (in source
\* order): each supplied handler is wrapped around the hook's current value.
Wrap(st, given, reg, todo) ==
    IF todo = <<>> THEN st
    ELSE LET ev == Head(todo)
             next == IF ev \in given
                     THEN [hook |-> [st.hook EXCEPT ![ev] = Len(st.closures) + 1],
                           closures |-> Append(st.closures,
                                               [prev |-> st.hook[ev], fn |-> Callable(reg, ev)])]
                     ELSE st
         IN Wrap(next, given, reg, Tail(todo))

\* instrument({onCommitFiberRoot, onCommitFiberUnmount, onPostCommitFiberRoot})
Instrument(given) ==
    /\ Len(instrCalls) < MaxInstruments
    /\ instrCalls' = Append(instrCalls, given)
    /\ IF ~hookPresent
       THEN UNCHANGED <<hook, closures>>
       ELSE LET r == Wrap([hook |-> hook, closures |-> closures], given,
                          Len(instrCalls) + 1,
                          <<"onCommitFiberRoot", "onCommitFiberUnmount", "onPostCommitFiberRoot">>)
            IN /\ hook' = r.hook
               /\ closures' = r.closures
    /\ UNCHANGED <<hookPresent, hook0, notifs, calls>>

InstrumentCall == \E given \in SUBSET Events : Instrument(given)

\* The host renderer calls hook[ev](rendererID, root); roots are numbered in
\* commit order.
Notify(ev, rid) ==
    /\ Len(notifs) < MaxNotifications
    /\ hookPresent
    /\ hook[ev] # Null
    /\ LET root == Len(notifs) + 1
           ran == Invoke(closures, ev, hook[ev])
       IN /\ notifs' = Append(notifs, [ev |-> ev, rid |-> rid, root |-> root])
          /\ calls' = calls \o [i \in 1..Len(ran) |-> [h |-> ran[i], rid |-> rid, root |-> root]]
    /\ UNCHANGED <<hookPresent, hook, hook0, closures, instrCalls>>

\* the renderer ids the host notifies with
RendererIDs(ev) == IF ev = "onCommitFiberRoot" THEN {1, 2} ELSE {1}

HostNotify == \E ev \in Events : \E rid \in RendererIDs(ev) : Notify(ev, rid)

HookIdle ==
    /\ hookPresent = FALSE
    /\ hook = [ev \in Events |-> Null]
    /\ hook0 = hook
    /\ closures = <<>>
    /\ instrCalls = <<>>
    /\ notifs = <<>>
    /\ calls = <<>>

HookInit ==
    /\ hookPresent \in BOOLEAN
    /\ hook \in [Events -> {Null, Subscriber}]
    /\ (~hookPresent => hook = [ev \in Events |-> Null])
    /\ hook0 = hook
    /\ closures = <<>>
    /\ instrCalls = <<>>
    /\ notifs = <<>>
    /\ calls = <<>>

\* ------------------------------------------------------------------ scan overlay
ListenerNames == {"mouseover", "click", "resize", "scroll", "keydown"}

\* isCompositeFiber(fiber)
isCompositeFiber(f) == kinds[f] \in {"named", "anon", "bare"}

\* typeof fiber.type === "string" ? fiber.type : getDisplayName(fiber);
\* a name is identified with the node that carries it, Null when none resolves
getDisplayName(f) == IF kinds[f] \in {"named", "bare"} THEN f ELSE Null

\* getNearestHostFibers(fiber).map(fiber => fiber.stateNode): the element of
\* a named composite is identified with its node; a composite that renders no
\* host element has none
ElementsOf(f) == IF kinds[f] = "named" THEN <<f>> ELSE <<>>

\* the part of the state toggleInspectMode and cleanup work on
LifeState == [hasCleanedUp |-> hasCleanedUp, inspectActive |-> inspectActive,
              listeners |-> listeners, activeOutlines |-> activeOutlines,
              hostAttached |-> hostAttached]

SetLife(st) ==
    /\ hasCleanedUp' = st.hasCleanedUp
    /\ inspectActive' = st.inspectActive
    /\ listeners' = st.listeners
    /\ activeOutlines' = st.activeOutlines
    /\ hostAttached' = st.hostAttached

\* a toggleInspectMode that computes enable || !inspectState.isActive
toggleInspectModeOr(st, hasCanvas, enable) ==
    IF ~hasCanvas THEN st
    ELSE LET active == (enable = "on") \/ ~st.inspectActive
         IN IF active
            THEN [st EXCEPT !.inspectActive = TRUE,
                            !.listeners = [@ EXCEPT !["mouseover"] = 1, !["click"] = 1]]
            ELSE [st EXCEPT !.inspectActive = FALSE,
                            !.listeners = [@ EXCEPT !["mouseover"] = 0, !["click"] = 0]]

\* toggleInspectMode(enable): enable is "on", "off" or "toggle" (omitted);
\* hasCanvas is canvas !== null at the time of the call
toggleInspectMode(st, hasCanvas, enable) ==
    IF ~hasCanvas THEN st
    ELSE LET active == IF enable = "toggle" THEN ~st.inspectActive ELSE enable = "on"
         IN IF active
            THEN [st EXCEPT !.inspectActive = TRUE,
                            !.activeOutlines = [f \in DOMAIN st.activeOutlines |->
                                [st.activeOutlines[f] EXCEPT !.frame = 0]],
                            !.listeners = [@ EXCEPT !["mouseover"] = 1, !["click"] = 1]]
            ELSE [st EXCEPT !.inspectActive = FALSE,
                            !.listeners = [@ EXCEPT !["mouseover"] = 0, !["click"] = 0]]

\* a cleanup without the hasCleanedUp guard that calls toggleInspectMode()
cleanupToggling(st, hasCanvas) ==
    [toggleInspectMode([st EXCEPT !.hasCleanedUp = TRUE], hasCanvas, "toggle")
        EXCEPT !.hostAttached = FALSE]

\* cleanup()
cleanup(st, hasCanvas) ==
    IF st.hasCleanedUp THEN st
    ELSE [toggleInspectMode([st EXCEPT !.hasCleanedUp = TRUE], hasCanvas, "off")
            EXCEPT !.hostAttached = FALSE]

\* hasStopped()
hasStopped == stopFlag

\* what a behaviour fixes at its start
envVars == <<kinds, blueprintCap, reportable, commitInputs, scrollCap>>

\* The last operation was not a call of stop or toggleInspectMode.
NoControl == [op |-> "none", n |-> 0, before |-> FALSE]

\* The call op ("stop", "on", "off", "toggle") is made: n tells whether it is
\* the first or the second of two calls in a row, before is inspectState.isActive
\* ahead of the first.
Called(op) ==
    IF control.op = op /\ control.n = 1
    THEN [control EXCEPT !.n = 2]
    ELSE [op |-> op, n |-> 1, before |-> inspectActive]

aggVars == <<blueprintMap, blueprintMapKeys, created, inflight, records, pendingCalls,
             booted, bootIdle, posted>>
paintVars == <<animationFrameId, pendingFrames>>

\* The module body: init() runs cleanup(), and unless stopped creates the
\* visitor and registers onActive and onCommitFiberRoot.
ModuleLoad ==
    /\ ~loaded
    /\ loaded' = TRUE
    /\ SetLife(cleanup(LifeState, canvas))
    /\ attached' = ~hasStopped
    /\ control' = NoControl
    /\ UNCHANGED <<envVars, eventVars, activated, stopFlag, canvas, worker, setup, ctx, intervals>>
    /\ UNCHANGED <<aggVars, paintVars>>

\* How the worker setup of getCanvasEl can go: no OffscreenCanvas worker
\* support, every step succeeds, or one of the three steps of the try block
\* throws.
SetupOutcomes == {"unsupported", "ok", "failConstruct", "failTransfer", "failPost"}

\* worker !== null after the try block: worker is assigned by the first step
workerAfterSetup(outcome) == outcome \in {"ok", "failTransfer", "failPost"}

\* onActive: unless stopped, getCanvasEl() builds the overlay (the canvas, a
\* worker when one was assigned, else a 2D context), registers the resize,
\* scroll and keydown listeners and the flush interval, and the host element
\* is appended to the document.
Activate(outcome) ==
    /\ attached
    /\ ~activated
    /\ activated' = TRUE
    /\ control' = NoControl
    /\ IF hasStopped
       THEN UNCHANGED <<canvas, worker, setup, ctx, listeners, intervals, hostAttached>>
       ELSE /\ canvas' = TRUE
            /\ worker' = workerAfterSetup(outcome)
            /\ setup' = outcome
            /\ ctx' = ~workerAfterSetup(outcome)
            /\ listeners' = [listeners EXCEPT !["resize"] = @ + 1, !["scroll"] = @ + 1,
                                              !["keydown"] = @ + 1]
            /\ intervals' = intervals + 1
            /\ hostAttached' = TRUE
    /\ UNCHANGED <<envVars, eventVars, loaded, attached, stopFlag, hasCleanedUp, inspectActive, activeOutlines>>
    /\ UNCHANGED <<aggVars, paintVars>>

\* onActive where the worker setup does not throw
OnActive == \E outcome \in {"unsupported", "ok"} : Activate(outcome)

\* onActive where a step of the worker setup throws
OnActiveFailing == \E outcome \in SetupOutcomes \ {"unsupported", "ok"} : Activate(outcome)

\* stop()
Stop ==
    /\ loaded
    /\ stopFlag' = TRUE
    /\ control' = Called("stop")
    /\ SetLife(cleanup(LifeState, canvas))
    /\ UNCHANGED <<envVars, eventVars, loaded, attached, activated, canvas, worker, setup, ctx, intervals>>
    /\ UNCHANGED <<aggVars, paintVars>>

\* toggleInspectMode called by the integrator, the toggle button or Alt+I
ToggleInspect(enable) ==
    /\ loaded
    /\ control' = Called(enable)
    /\ SetLife(toggleInspectMode(LifeState, canvas, enable))
    /\ UNCHANGED <<envVars, eventVars, loaded, attached, activated, stopFlag, canvas, worker, setup, ctx, intervals>>
    /\ UNCHANGED <<aggVars, paintVars>>

ToggleInspectCall == \E enable \in {"on", "off", "toggle"} : ToggleInspect(enable)

\* ------------------------------------------------------------------ geometry
\* new DOMRect(x, y, width, height)
DOMRect(x, y, width, height) == [x |-> x, y |-> y, width |-> width, height |-> height]

\* Math.min, Math.max
Min(a, b) == IF a <= b THEN a ELSE b
Max(a, b) == IF a >= b THEN a ELSE b

RECURSIVE mergeLoop(_, _, _)
\* the for loop of mergeRects from index i (1-based); acc is <<>> while
\* minX, minY, maxX, maxY are undefined and <<[minX, minY, maxX, maxY]>> after
mergeLoop(rects, i, acc) ==
    IF i > Len(rects) THEN acc
    ELSE LET rect == rects[i]
             next == IF acc = <<>>
                     THEN [minX |-> rect.x, minY |-> rect.y,
                           maxX |-> rect.x + rect.width, maxY |-> rect.y + rect.height]
                     ELSE [minX |-> Min(acc[1].minX, rect.x),
                           minY |-> Min(acc[1].minY, rect.y),
                           maxX |-> Max(acc[1].maxX, rect.x + rect.width),
                           maxY |-> Max(acc[1].maxY, rect.y + rect.height)]
         IN mergeLoop(rects, i + 1, <<next>>)

\* a mergeRects that takes the largest width and height for the extent
mergeRectsMaxExtent(rects) ==
    IF Len(rects) = 1 THEN rects[1]
    ELSE LET acc == mergeLoop(rects, 1, <<>>)
             w == CHOOSE w \in {rects[i].width : i \in 1..Len(rects)} :
                      \A j \in 1..Len(rects) : rects[j].width <= w
             h == CHOOSE h \in {rects[i].height : i \in 1..Len(rects)} :
                      \A j \in 1..Len(rects) : rects[j].height <= h
         IN DOMRect(acc[1].minX, acc[1].minY, w, h)

\* mergeRects(rects)
mergeRects(rects) ==
    IF Len(rects) = 1 THEN rects[1]
    ELSE LET acc == mergeLoop(rects, 1, <<>>)
         IN IF acc = <<>> THEN rects[1]
            ELSE DOMRect(acc[1].minX, acc[1].minY,
                         acc[1].maxX - acc[1].minX, acc[1].maxY - acc[1].minY)

RECURSIVE observerCallback(_, _)
\* the IntersectionObserver callback of getRectMap over its entries: an
\* entry that intersects and has a width and a height is put in the map
observerCallback(entries, rects) ==
    IF entries = <<>> THEN rects
    ELSE LET entry == Head(entries)
         IN observerCallback(Tail(entries),
                IF entry.isIntersecting /\ entry.rect.width # 0 /\ entry.rect.height # 0
                THEN [e \in DOMAIN rects \cup {entry.target} |->
                         IF e = entry.target THEN entry.rect ELSE rects[e]]
                ELSE rects)

\* the entries the observer delivers to its callback for the observed
\* elements: one per target, report[e] telling what is reported for e
EntriesOf(observed, report) ==
    LET targets == SetToSeq(observed)
    IN [i \in 1..Len(targets) |->
           [target |-> targets[i], isIntersecting |-> report[targets[i]].isIntersecting,
            rect |-> report[targets[i]].rect]]

\* a getRectMap that keeps every element with a width and a height
getRectMapAnyEntry(elements, report) ==
    LET sized == {e \in elements : report[e].rect.width # 0 /\ report[e].rect.height # 0}
    IN [e \in sized |-> report[e].rect]

\* getRectMap(elements): what the promise resolves to when the observer
\* reports report for the elements it was given (a set: observing an element
\* twice observes it once)
getRectMap(elements, report) == observerCallback(EntriesOf(elements, report), <<>>)

\* the rectangles of visible elements: what getRectMap lets through
VisibleRects == [x : 0..MaxCoord, y : 0..MaxCoord, width : 1..MaxSize, height : 1..MaxSize]

\* the non-empty lists flushOutlines hands to mergeRects
RectLists == UNION {[1..n -> VisibleRects] : n \in 1..MaxRects}

\* what the observer can report for an element: clipped or not, any extent
Entries == [isIntersecting : BOOLEAN,
            rect : [x : {0}, y : {0}, width : 0..MaxSize, height : 0..MaxSize]]

\* the reports for the non-empty sets of elements
Reports == UNION {[E -> Entries] : E \in SUBSET (1..MaxElements) \ {{}}}

\* A call of mergeRects on its own.
MergeCall ==
    /\ gPhase = "merge"
    /\ ~gDone
    /\ gDone' = TRUE
    /\ gResult' = mergeRects(gRects)
    /\ UNCHANGED <<gPhase, gRects, gReport>>

\* A call of getRectMap on its own, resolved by the observer callback.
RectMapCall ==
    /\ gPhase = "rects"
    /\ ~gDone
    /\ gDone' = TRUE
    /\ gResult' = getRectMap(DOMAIN gReport, gReport)
    /\ UNCHANGED <<gPhase, gRects, gReport>>

GeoIdle ==
    /\ gPhase = "idle"
    /\ gRects = <<>>
    /\ gReport = <<>>
    /\ gDone = FALSE
    /\ gResult = <<>>

\* The arguments of one call.
GeoInit ==
    /\ gPhase \in {"merge", "rects"}
    /\ gRects \in IF gPhase = "merge" THEN RectLists ELSE {<<>>}
    /\ gReport \in IF gPhase = "rects" THEN Reports ELSE {<<>>}
    /\ gDone = FALSE
    /\ gResult = <<>>

\* The pending table as outlineFiber sees it.
AggState == [map |-> blueprintMap, keys |-> blueprintMapKeys, created |-> created,
             pend |-> pendingCalls]

\* an outlineFiber that never counts repeated renders
outlineFiberNoCount(st, f, didCommit) ==
    IF ~isCompositeFiber(f) THEN st
    ELSE IF getDisplayName(f) = Null THEN st
    ELSE IF f \notin DOMAIN st.map
         THEN [st EXCEPT !.map = @ @@ (f :> [gen |-> st.created + 1,
                                             name |-> getDisplayName(f),
                                             count |-> 1, elements |-> ElementsOf(f),
                                             didCommit |-> didCommit]),
                         !.keys = Append(@, f),
                         !.created = @ + 1,
                         !.pend[f] = @ + 1]
         ELSE [st EXCEPT !.pend[f] = @ + 1]

\* an outlineFiber that records a composite node whether or not it has a name
outlineFiberUnnamed(st, f, didCommit) ==
    IF ~isCompositeFiber(f) THEN st
    ELSE IF f \notin DOMAIN st.map
         THEN [st EXCEPT !.map = @ @@ (f :> [gen |-> st.created + 1,
                                             name |-> getDisplayName(f),
                                             count |-> 1, elements |-> ElementsOf(f),
                                             didCommit |-> didCommit]),
                         !.keys = Append(@, f),
                         !.created = @ + 1,
                         !.pend[f] = @ + 1]
         ELSE [st EXCEPT !.map[f].count = @ + 1,
                         !.pend[f] = @ + 1]

\* outlineFiber(fiber); pend counts the calls that got past the two returns
outlineFiber(st, f, didCommit) ==
    IF ~isCompositeFiber(f) THEN st
    ELSE IF getDisplayName(f) = Null THEN st
    ELSE IF f \notin DOMAIN st.map
         THEN [st EXCEPT !.map = @ @@ (f :> [gen |-> st.created + 1,
                                             name |-> getDisplayName(f),
                                             count |-> 1, elements |-> ElementsOf(f),
                                             didCommit |-> didCommit]),
                         !.keys = Append(@, f),
                         !.created = @ + 1,
                         !.pend[f] = @ + 1]
         ELSE [st EXCEPT !.map[f].count = @ + 1,
                         !.pend[f] = @ + 1]

RECURSIVE outlineAll(_, _, _)
\* the visitor's onRender of init, applied to the nodes a visit reports:
\* outlineFiber(fiber); committed are the nodes didFiberCommit holds for
outlineAll(st, log, committed) ==
    IF log = <<>> THEN st
    ELSE outlineAll(outlineFiber(st, Head(log), IF Head(log) \in committed THEN 1 ELSE 0),
                    Tail(log), committed)

\* root.current of a commit: the nodes of mounted are in the tree, the others
\* are not mounted yet and hang under no node
TreeOf(alt, mounted) ==
    [vTree EXCEPT !.alternate = alt,
                  !.parent = [n \in Nodes |-> IF n \in mounted THEN vTree.parent[n] ELSE 0]]

\* init's onCommitFiberRoot: cleanup() when stopped, else visit(rendererID,
\* root) with onRender(fiber) { if (document.hidden) return; outlineFiber(fiber) }
CommitFiberRoot(alt, mounted, hidden, work, committed) ==
    /\ attached
    /\ control' = NoControl
    /\ IF hasStopped
       THEN /\ SetLife(cleanup(LifeState, canvas))
            /\ UNCHANGED aggVars
       ELSE LET log == tryBlock(TreeOf(alt, mounted), {}).log
                seen == IF hidden THEN <<>> ELSE log
                r == outlineAll(AggState, seen, committed)
            IN /\ r.created <= blueprintCap
               /\ \A f \in DOMAIN r.map : r.map[f].count <= MaxCount
               /\ blueprintMap' = r.map
               /\ blueprintMapKeys' = r.keys
               /\ created' = r.created
               /\ pendingCalls' = r.pend
               /\ booted' = TRUE
               /\ bootIdle' = IF ~booted THEN {seen[i] : i \in 1..Len(seen)}
                              ELSE bootIdle \ work
               /\ UNCHANGED <<inflight, records, posted>>
               /\ UNCHANGED <<hasCleanedUp, inspectActive, listeners, activeOutlines, hostAttached>>
    /\ UNCHANGED <<envVars, eventVars, loaded, attached, activated, stopFlag, canvas, worker, setup, ctx, intervals>>
    /\ UNCHANGED paintVars

\* a commit: the nodes mounted in the tree, whether the document is hidden,
\* the nodes that did work, the nodes didFiberCommit holds for
AnyCommit == [mounted : {Nodes}, hidden : BOOLEAN, work : {{}, Nodes}, committed : {{}, Nodes}]

\* commits of a visible document while the tree grows: node 3 is mounted in
\* some commits and not yet in others
GrowingCommit == [mounted : {Nodes \ {3}, Nodes}, hidden : {FALSE}, work : {{}},
                  committed : {Nodes}]

\* a commit of a visible document in which every node committed
VisibleCommit == {in \in AnyCommit : ~in.hidden /\ in.work = {} /\ in.committed = Nodes}

HostCommit ==
    \E alt \in BOOLEAN, in \in commitInputs :
        CommitFiberRoot(alt, in.mounted, in.hidden, in.work, in.committed)

RECURSIVE CollectElements(_, _)
\* flushOutlines, first loop: the elements of every pending blueprint
CollectElements(map, keys) ==
    IF keys = <<>> THEN <<>>
    ELSE (IF Head(keys) \notin DOMAIN map THEN <<>> ELSE map[Head(keys)].elements)
         \o CollectElements(map, Tail(keys))

Range(q) == {q[i] : i \in 1..Len(q)}

\* The interval callback: if (blueprintMapKeys.size) flushOutlines(). The call
\* collects the elements and awaits getRectMap(elements); the observer
\* callback never runs when nothing is observed, so such a call never resumes.
\* The waiting calls are kept in the order they started.
FlushTick ==
    /\ intervals > 0
    /\ blueprintMapKeys # <<>>
    /\ Len(inflight) < MaxInFlight
    /\ control' = NoControl
    /\ LET elements == CollectElements(blueprintMap, blueprintMapKeys)
       IN inflight' = IF elements = <<>> THEN inflight
                      ELSE Append(inflight, Range(elements))
    /\ UNCHANGED <<blueprintMap, blueprintMapKeys, created, records, pendingCalls,
                   booted, bootIdle, posted>>
    /\ UNCHANGED <<envVars, eventVars, loaded, attached, activated, stopFlag, hasCleanedUp, canvas, worker,
                   setup, ctx, hostAttached, inspectActive, listeners, intervals, activeOutlines>>
    /\ UNCHANGED paintVars

RECURSIVE RectsOf(_, _)
\* flushOutlines, second loop, inner loop: the rectangles rectsMap holds for
\* the elements of a blueprint
RectsOf(elements, rectsMap) ==
    IF elements = <<>> THEN <<>>
    ELSE (IF Head(elements) \in DOMAIN rectsMap THEN <<rectsMap[Head(elements)]>> ELSE <<>>)
         \o RectsOf(Tail(elements), rectsMap)

RECURSIVE Consume(_, _, _)
\* flushOutlines, second loop, over the keys as they are when getRectMap has
\* resolved: every pending blueprint is deleted, and one with at least one
\* resolved rectangle yields an outline datum (id is getFiberId(fiber)) with
\* the merged rectangle
Consume(map, keys, rectsMap) ==
    IF keys = <<>> THEN <<>>
    ELSE LET f == Head(keys)
             rest == Consume(map, Tail(keys), rectsMap)
         IN IF f \notin DOMAIN map THEN rest
            ELSE LET rects == RectsOf(map[f].elements, rectsMap)
                 IN IF rects = <<>> THEN rest
                    ELSE LET rect == mergeRects(rects)
                         IN <<[gen |-> map[f].gen, id |-> f, name |-> map[f].name,
                               count |-> map[f].count, x |-> rect.x, y |-> rect.y,
                               width |-> rect.width, height |-> rect.height,
                               didCommit |-> map[f].didCommit]>> \o rest

\* a second loop that leaves the pending table as it was
KeepConsumed(map, keys) == [map |-> map, keys |-> keys]

\* a second loop that deletes the blueprints and leaves the key set as it was
DeleteConsumedMapOnly(map, keys) ==
    [map |-> [f \in DOMAIN map \ Range(keys) |-> map[f]], keys |-> keys]

\* the pending table after the second loop: blueprintMap.delete(fiber) and
\* blueprintMapKeys.delete(fiber) for every key that has a blueprint
DeleteConsumed(map, keys) ==
    [map |-> [f \in DOMAIN map \ Range(keys) |-> map[f]],
     keys |-> SelectSeq(keys, LAMBDA f : f \notin DOMAIN map)]

\* The stride of a record in the draw-outlines buffer.
OUTLINE_ARRAY_SIZE == 7

RECURSIVE Ulp(_, _)
\* the spacing of the 32-bit floats around v >= 0 (1 up to 2^24)
Ulp(v, u) == IF v <= (2 ^ 24) * u THEN u ELSE Ulp(v, 2 * u)

\* storing the integer v in a Float32Array: exact up to 2^24 in magnitude,
\* rounded to the nearest multiple of the spacing (ties to even) beyond
fround(v) ==
    LET a == IF v < 0 THEN -v ELSE v
        u == Ulp(a, 1)
        q == a \div u
        r == a % u
        up == 2 * r > u \/ (2 * r = u /\ q % 2 = 1)
        m == (IF up THEN q + 1 ELSE q) * u
    IN IF v < 0 THEN -m ELSE m

\* the fields of a blueprint's record, in the order the loop writes them
\* to sharedView[scaledIndex] .. sharedView[scaledIndex + 6]
FieldsOf(d) == <<d.id, d.count, d.x, d.y, d.width, d.height, d.didCommit>>

\* a packing loop that writes count ahead of id
PackCountFirst(data) ==
    [type |-> "draw-outlines",
     data |-> [k \in 1..(Len(data) * OUTLINE_ARRAY_SIZE) |->
                 LET i == (k - 1) \div OUTLINE_ARRAY_SIZE
                     j == (k - 1) % OUTLINE_ARRAY_SIZE
                     fields == FieldsOf(data[i + 1])
                     swapped == <<fields[2], fields[1]>> \o SubSeq(fields, 3, 7)
                 IN IF j < 7 THEN fround(swapped[j + 1]) ELSE 0],
     names |-> [i \in 1..Len(data) |-> data[i].name]]

\* flushOutlines on the worker path: a Float32Array over blueprints.length *
\* OUTLINE_ARRAY_SIZE * 4 bytes (zero-filled), record i written from index
\* i * OUTLINE_ARRAY_SIZE (a write past the end is dropped), blueprintNames[i]
\* set to the name, and the message posted to the worker
Pack(data) ==
    [type |-> "draw-outlines",
     data |-> [k \in 1..(Len(data) * OUTLINE_ARRAY_SIZE) |->
                 LET written == {w \in 0..(Len(data) * 7 - 1) :
                                    (w \div 7) * OUTLINE_ARRAY_SIZE + (w % 7) = k - 1}
                 IN IF written = {} THEN 0
                    ELSE LET w == CHOOSE w \in written : \A v \in written : v <= w
                         IN fround(FieldsOf(data[(w \div 7) + 1])[(w % 7) + 1])],
     names |-> [i \in 1..Len(data) |-> data[i].name]]

\* no message was posted
NoMessage == [type |-> "none", data |-> <<>>, names |-> <<>>]

\* updateOutlines that adds an outline for every datum
updateOutlinesAppend(outlines, data) ==
    outlines \o [i \in 1..Len(data) |->
                    [id |-> data[i].id, name |-> data[i].name, count |-> data[i].count,
                     frame |-> 0,
                     target |-> DOMRect(data[i].x, data[i].y, data[i].width, data[i].height),
                     didCommit |-> data[i].didCommit, refreshed |-> FALSE]]

RECURSIVE updateOutlinesKeepTarget(_, _)
\* updateOutlines that leaves the target box of an outline it refreshes
updateOutlinesKeepTarget(outlines, data) ==
    IF data = <<>> THEN outlines
    ELSE LET d == Head(data)
             fresh == [id |-> d.id, name |-> d.name, count |-> d.count, frame |-> 0,
                       target |-> DOMRect(d.x, d.y, d.width, d.height),
                       didCommit |-> d.didCommit, refreshed |-> FALSE]
             at == {k \in 1..Len(outlines) : outlines[k].id = d.id}
         IN updateOutlinesKeepTarget(
                IF at = {} THEN Append(outlines, fresh)
                ELSE [k \in 1..Len(outlines) |->
                         IF k \in at
                         THEN [fresh EXCEPT !.refreshed = TRUE, !.target = outlines[k].target]
                         ELSE outlines[k]],
                Tail(data))

RECURSIVE updateOutlines(_, _)
\* updateOutlines(activeOutlines, outlineData): the outline of an id already
\* in the set is refreshed (count, didCommit, target box, frame back to 0),
\* an outline is added for a new id. refreshed tells that the outline was
\* refreshed since it was added.
updateOutlines(outlines, data) ==
    IF data = <<>> THEN outlines
    ELSE LET d == Head(data)
             fresh == [id |-> d.id, name |-> d.name, count |-> d.count, frame |-> 0,
                       target |-> DOMRect(d.x, d.y, d.width, d.height),
                       didCommit |-> d.didCommit, refreshed |-> FALSE]
             at == {k \in 1..Len(outlines) : outlines[k].id = d.id}
         IN updateOutlines(IF at = {} THEN Append(outlines, fresh)
                           ELSE [k \in 1..Len(outlines) |->
                                    IF k \in at THEN [fresh EXCEPT !.refreshed = TRUE]
                                    ELSE outlines[k]],
                           Tail(data))

\* a handler that takes the main-thread branch whether or not a worker exists
dispatchMain(w) == "main"

\* if (worker) { worker.postMessage(...) } else { ... }: the branch a handler
\* takes
dispatch(w) == IF w THEN "worker" ELSE "main"

\* getRectMap resolves for the i-th waiting flushOutlines call with rectsMap,
\* and the call runs to its end.
FlushResolve(i, rectsMap) ==
    LET data == Consume(blueprintMap, blueprintMapKeys, rectsMap)
        left == DeleteConsumed(blueprintMap, blueprintMapKeys)
    IN /\ control' = NoControl
       /\ inflight' = SubSeq(inflight, 1, i - 1) \o SubSeq(inflight, i + 1, Len(inflight))
       /\ blueprintMap' = left.map
       /\ blueprintMapKeys' = left.keys
       /\ pendingCalls' = [f \in Nodes |-> IF f \in DOMAIN left.map THEN pendingCalls[f] ELSE 0]
       /\ IF dispatch(worker) = "worker"
          THEN /\ records' = records \o data
               /\ posted' = Pack(data)
               /\ UNCHANGED <<activeOutlines, animationFrameId, pendingFrames>>
          ELSE IF canvas /\ ctx /\ data # <<>>
               THEN /\ records' = records \o data
                    /\ activeOutlines' = updateOutlines(activeOutlines, data)
                    /\ animationFrameId' = TRUE
                    /\ pendingFrames' = IF animationFrameId THEN pendingFrames
                                        ELSE pendingFrames + 1
                    /\ UNCHANGED posted
               ELSE UNCHANGED <<records, activeOutlines, animationFrameId, pendingFrames,
                                posted>>
       /\ UNCHANGED <<created, booted, bootIdle>>
       /\ UNCHANGED <<envVars, eventVars, loaded, attached, activated, stopFlag, hasCleanedUp, canvas,
                      worker, setup, ctx, hostAttached, inspectActive, listeners, intervals>>

\* what the observer may report for the elements of a waiting call
ReportsFor(elements) == [elements -> [isIntersecting : BOOLEAN, rect : reportable]]

RectsResolve ==
    \E i \in 1..Len(inflight) : \E report \in ReportsFor(inflight[i]) :
        FlushResolve(i, getRectMap(inflight[i], report))

\* a drawCanvas that ages the outlines and removes none
drawCanvasKeepAll(outlines) ==
    [k \in 1..Len(outlines) |-> [outlines[k] EXCEPT !.frame = @ + 1]]

\* drawCanvas(ctx, canvas, dpr, activeOutlines, inspectState): every outline
\* ages by one frame, one past the horizon is removed
drawCanvas(outlines) ==
    SelectSeq([k \in 1..Len(outlines) |-> [outlines[k] EXCEPT !.frame = @ + 1]],
              LAMBDA o : o.frame <= TotalFrames)

\* An animation frame runs draw().
Draw ==
    /\ pendingFrames > 0
    /\ control' = NoControl
    /\ IF ~ctx \/ ~canvas
       THEN /\ pendingFrames' = pendingFrames - 1
            /\ UNCHANGED <<activeOutlines, animationFrameId>>
       ELSE LET after == drawCanvas(activeOutlines)
                shouldContinue == after # <<>>
            IN /\ activeOutlines' = after
               /\ animationFrameId' = shouldContinue
               /\ pendingFrames' = IF shouldContinue THEN pendingFrames ELSE pendingFrames - 1
    /\ UNCHANGED <<envVars, eventVars, loaded, attached, activated, stopFlag, hasCleanedUp, canvas, worker,
                   setup, ctx, hostAttached, inspectActive, listeners, intervals>>
    /\ UNCHANGED aggVars

\* a message to the worker other than draw-outlines
WorkerMessage(type) == [type |-> type, data |-> <<>>, names |-> <<>>]

\* a handler that schedules a timer for every event
debounceEvery(scheduled, timers) == [scheduled |-> TRUE, timers |-> timers + 1]

\* the resize and scroll listeners: if (!isScheduled) { isScheduled = true;
\* setTimeout(...) }
debounce(scheduled, timers) ==
    IF ~scheduled THEN [scheduled |-> TRUE, timers |-> timers + 1]
    ELSE [scheduled |-> scheduled, timers |-> timers]

\* the events of class c counted while its timer waits
Coalesce(c, scheduled) ==
    IF scheduled THEN [coalesced EXCEPT ![c] = @ + 1] ELSE coalesced

\* A resize event reaches the window.
ResizeEvent ==
    /\ listeners["resize"] > 0
    /\ isResizeScheduled => coalesced["resize"] < MaxCoalesced
    /\ resizeTimers < MaxPendingFrames
    /\ LET r == debounce(isResizeScheduled, resizeTimers)
       IN /\ isResizeScheduled' = r.scheduled
          /\ resizeTimers' = r.timers
    /\ coalesced' = Coalesce("resize", isResizeScheduled)
    /\ control' = NoControl
    /\ UNCHANGED <<isScrollScheduled, scrollTimers, scrollY, prevScrollY, scrollFrames,
                   scrollDelivered, hoveredRect>>
    /\ UNCHANGED <<envVars, loaded, attached, activated, stopFlag, hasCleanedUp, canvas, worker,
                   setup, ctx, hostAttached, inspectActive, listeners, intervals, activeOutlines>>
    /\ UNCHANGED <<aggVars, paintVars>>

\* The timer of the resize listener fires: the canvas is resized, and the
\* worker is told or draw() is called.
ResizeTimer ==
    /\ resizeTimers > 0
    /\ resizeTimers' = resizeTimers - 1
    /\ isResizeScheduled' = FALSE
    /\ coalesced' = [coalesced EXCEPT !["resize"] = 0]
    /\ control' = NoControl
    /\ IF worker
       THEN /\ posted' = WorkerMessage("resize")
            /\ UNCHANGED <<activeOutlines, animationFrameId, pendingFrames>>
       ELSE IF ~ctx \/ ~canvas
            THEN UNCHANGED <<activeOutlines, animationFrameId, pendingFrames, posted>>
            ELSE LET after == drawCanvas(activeOutlines)
                     shouldContinue == after # <<>>
                 IN /\ shouldContinue => pendingFrames < MaxPendingFrames
                    /\ activeOutlines' = after
                    /\ animationFrameId' = shouldContinue
                    /\ pendingFrames' = IF shouldContinue THEN pendingFrames + 1
                                        ELSE pendingFrames
                    /\ UNCHANGED posted
    /\ UNCHANGED <<isScrollScheduled, scrollTimers, scrollY, prevScrollY, scrollFrames,
                   scrollDelivered, hoveredRect>>
    /\ UNCHANGED <<envVars, loaded, attached, activated, stopFlag, hasCleanedUp, canvas, worker,
                   setup, ctx, hostAttached, inspectActive, listeners, intervals>>
    /\ UNCHANGED <<blueprintMap, blueprintMapKeys, created, inflight, records, pendingCalls,
                   booted, bootIdle>>

\* A scroll event reaches the window: the page is at another offset.
ScrollEvent ==
    /\ listeners["scroll"] > 0
    /\ isScrollScheduled => coalesced["scroll"] < MaxCoalesced
    /\ scrollTimers < MaxPendingFrames
    /\ \E y \in 0..scrollCap : y # scrollY /\ scrollY' = y
    /\ LET r == debounce(isScrollScheduled, scrollTimers)
       IN /\ isScrollScheduled' = r.scheduled
          /\ scrollTimers' = r.timers
    /\ coalesced' = Coalesce("scroll", isScrollScheduled)
    /\ control' = NoControl
    /\ UNCHANGED <<isResizeScheduled, resizeTimers, prevScrollY, scrollFrames, scrollDelivered,
                   hoveredRect>>
    /\ UNCHANGED <<envVars, loaded, attached, activated, stopFlag, hasCleanedUp, canvas, worker,
                   setup, ctx, hostAttached, inspectActive, listeners, intervals, activeOutlines>>
    /\ UNCHANGED <<aggVars, paintVars>>

\* a delta taken as the offset of the page
scrollDeltaAbsolute(y, prev) == y

\* const deltaY = scrollY - prevScrollY
scrollDelta(y, prev) == y - prev

\* The timer of the scroll listener fires: the worker is told the delta, or
\* an animation frame is requested for updateScroll.
ScrollTimer ==
    /\ scrollTimers > 0
    /\ dispatch(worker) = "main" => Len(scrollFrames) < MaxPendingFrames
    /\ scrollTimers' = scrollTimers - 1
    /\ isScrollScheduled' = FALSE
    /\ coalesced' = [coalesced EXCEPT !["scroll"] = 0]
    /\ prevScrollY' = scrollY
    /\ control' = NoControl
    /\ IF dispatch(worker) = "worker"
       THEN /\ posted' = WorkerMessage("scroll")
            /\ scrollDelivered' = scrollDelivered + scrollDelta(scrollY, prevScrollY)
            /\ UNCHANGED scrollFrames
       ELSE /\ scrollFrames' = Append(scrollFrames, scrollDelta(scrollY, prevScrollY))
            /\ UNCHANGED <<posted, scrollDelivered>>
    /\ UNCHANGED <<isResizeScheduled, resizeTimers, scrollY, hoveredRect>>
    /\ UNCHANGED <<envVars, loaded, attached, activated, stopFlag, hasCleanedUp, canvas, worker,
                   setup, ctx, hostAttached, inspectActive, listeners, intervals, activeOutlines>>
    /\ UNCHANGED <<blueprintMap, blueprintMapKeys, created, inflight, records, pendingCalls,
                   booted, bootIdle>>
    /\ UNCHANGED paintVars

\* updateScroll(activeOutlines, deltaX, deltaY): the boxes move with the page
updateScroll(outlines, deltaX, deltaY) ==
    [k \in 1..Len(outlines) |->
        [outlines[k] EXCEPT !.target = DOMRect(@.x - deltaX, @.y - deltaY, @.width, @.height)]]

\* The animation frame the scroll timer requested runs updateScroll.
ScrollFrame ==
    /\ scrollFrames # <<>>
    /\ activeOutlines' = updateScroll(activeOutlines, 0, Head(scrollFrames))
    /\ scrollFrames' = Tail(scrollFrames)
    /\ scrollDelivered' = scrollDelivered + Head(scrollFrames)
    /\ control' = NoControl
    /\ UNCHANGED <<isResizeScheduled, resizeTimers, isScrollScheduled, scrollTimers, scrollY,
                   prevScrollY, hoveredRect, coalesced>>
    /\ UNCHANGED <<envVars, loaded, attached, activated, stopFlag, hasCleanedUp, canvas, worker,
                   setup, ctx, hostAttached, inspectActive, listeners, intervals>>
    /\ UNCHANGED <<aggVars, paintVars>>

\* handleInspectHover for an element outside the overlay: the hovered
\* rectangle is recorded, and the worker is told or one frame is requested
\* unless one is pending.
HoverEvent ==
    /\ listeners["mouseover"] > 0
    /\ \E rect \in reportable : hoveredRect' = <<rect>>
    /\ control' = NoControl
    /\ IF dispatch(worker) = "worker"
       THEN /\ posted' = WorkerMessage("inspect-update")
            /\ UNCHANGED <<animationFrameId, pendingFrames>>
       ELSE IF ~animationFrameId
            THEN /\ pendingFrames < MaxPendingFrames
                 /\ animationFrameId' = TRUE
                 /\ pendingFrames' = pendingFrames + 1
                 /\ UNCHANGED posted
            ELSE UNCHANGED <<animationFrameId, pendingFrames, posted>>
    /\ UNCHANGED <<isResizeScheduled, resizeTimers, isScrollScheduled, scrollTimers, scrollY,
                   prevScrollY, scrollFrames, scrollDelivered, coalesced>>
    /\ UNCHANGED <<envVars, loaded, attached, activated, stopFlag, hasCleanedUp, canvas, worker,
                   setup, ctx, hostAttached, inspectActive, listeners, intervals, activeOutlines>>
    /\ UNCHANGED <<blueprintMap, blueprintMapKeys, created, inflight, records, pendingCalls,
                   booted, bootIdle>>

\* the nodes of the overlay specification: node 1 is the host root, nodes 2
\* and 3 are named components, the others are anonymous components
ScanKinds == [n \in Nodes |-> IF n = 1 THEN "host"
                              ELSE IF n \in {2, 3} THEN "named" ELSE "anon"]

\* the nodes of the lifecycle specification: one named component
LifecycleKinds == [n \in Nodes |-> IF n = 1 THEN "host"
                                   ELSE IF n = 2 THEN "named" ELSE "anon"]

\* the nodes of the stalled-flush specification: node 2 is a named component
\* that renders no host element, node 3 a named component
StallKinds == [n \in Nodes |-> IF n = 1 THEN "host"
                               ELSE IF n = 2 THEN "bare"
                               ELSE IF n = 3 THEN "named" ELSE "anon"]

\* the tree the host renders in the overlay specifications: a Fiber tree,
\* the last node a child of node 2 and the others children of the root
ScanTrees == {t \in Trees : /\ t.kind = "fiber"
                            /\ ~t.alternate
                            /\ \A n \in Nodes \ {1} :
                                  t.parent[n] = IF n = NumNodes THEN 2 ELSE 1}

ScanRest ==
    /\ loaded = FALSE
    /\ attached = FALSE
    /\ activated = FALSE
    /\ stopFlag = FALSE
    /\ hasCleanedUp = FALSE
    /\ canvas = FALSE
    /\ worker = FALSE
    /\ ctx = FALSE
    /\ hostAttached = FALSE
    /\ inspectActive = FALSE
    /\ listeners = [l \in ListenerNames |-> 0]
    /\ intervals = 0
    /\ animationFrameId = FALSE
    /\ pendingFrames = 0
    /\ blueprintMap = <<>>
    /\ blueprintMapKeys = <<>>
    /\ created = 0
    /\ inflight = <<>>
    /\ records = <<>>
    /\ activeOutlines = <<>>
    /\ pendingCalls = [f \in Nodes |-> 0]
    /\ booted = FALSE
    /\ bootIdle = {}
    /\ setup = "none"
    /\ posted = NoMessage
    /\ control = NoControl
    /\ isResizeScheduled = FALSE
    /\ resizeTimers = 0
    /\ isScrollScheduled = FALSE
    /\ scrollTimers = 0
    /\ scrollY = 0
    /\ prevScrollY = 0
    /\ scrollFrames = <<>>
    /\ scrollDelivered = 0
    /\ hoveredRect = <<>>
    /\ coalesced = [resize |-> 0, scroll |-> 0]

\* one rectangle, of non-zero area
OneBox == {[x |-> 0, y |-> 0, width |-> 1, height |-> 1]}

\* the rectangles of an element that moves along the top of the viewport
MovingBox == {r \in VisibleRects : r.y = 0 /\ r.width = 1 /\ r.height = 1}

ScanIdle ==
    /\ ScanRest
    /\ kinds = ScanKinds
    /\ blueprintCap = MaxBlueprints
    /\ reportable = OneBox
    /\ commitInputs = AnyCommit
    /\ scrollCap = MaxScroll

\* Before the module body runs.
ScanInit ==
    /\ ScanRest
    /\ kinds \in {ScanKinds, LifecycleKinds, StallKinds}
    /\ blueprintCap \in {MaxBlueprints, MaxLifecycleBlueprints, MaxDispatchBlueprints}
    /\ reportable \in {OneBox, MovingBox}
    /\ commitInputs \in {AnyCommit, VisibleCommit, GrowingCommit}
    /\ scrollCap \in {MaxScroll, MaxScrollFar}
    /\ vTree \in ScanTrees
    /\ vThrows = {}
    /\ vHasOnError = TRUE
    /\ vWork = {}
    /\ vLog = <<>>
    /\ vErrors = 0
    /\ vPropagated = FALSE
    /\ vCommits = 0

\* ------------------------------------------------------------------ timing statistics
PNodes == 1..NumPerfNodes

\* node.child and node.sibling: node 2 is the child of node 1, and every
\* later node is the sibling of the one before it
PChild(n) == IF n = 1 /\ NumPerfNodes >= 2 THEN 2 ELSE Null
PSibling(n) == IF n >= 2 /\ n < NumPerfNodes THEN n + 1 ELSE Null

\* the prototype of the component function (the nodes of a component share it)
Prototype == NumPerfNodes + 1

\* what the WeakMaps are keyed by: nodes and the prototype
PKeys == 1..(NumPerfNodes + 1)

\* memoizedTreeDurations.get(key) === undefined
Absent == -1

\* getTimingKey(node): the prototype of a function type (undefined for an
\* arrow function), else the node itself
getTimingKey(n) ==
    IF n = Null THEN Null
    ELSE IF pShape[n] = "component" THEN Prototype
    ELSE IF pShape[n] = "arrow" THEN Null
    ELSE n

RECURSIVE calculateTreeDuration(_, _)
\* calculateTreeDuration(node): the total, and the memo table after the call
calculateTreeDuration(memo, node) ==
    IF node = Null THEN [total |-> 0, memo |-> memo]
    ELSE IF memo[node] # Absent THEN [total |-> memo[node], memo |-> memo]
    ELSE LET selfTime == actualDuration[node]
             c == IF PChild(node) # Null THEN calculateTreeDuration(memo, PChild(node))
                  ELSE [total |-> 0, memo |-> memo]
             sb == IF PSibling(node) # Null THEN calculateTreeDuration(c.memo, PSibling(node))
                   ELSE [total |-> 0, memo |-> c.memo]
             total == selfTime + c.total + sb.total
         IN [total |-> total, memo |-> [sb.memo EXCEPT ![node] = total]]

\* what getTimings returns for a node without data
NoTimings == [selfTime |-> 0, totalTime |-> 0, renderCount |-> 0]

\* getTimings(node): what it returns, and the memo table after the call
getTimings(n) ==
    IF n = Null THEN [ret |-> NoTimings, memo |-> memoizedTreeDurations]
    ELSE IF actualDuration[n] # 0
         THEN LET t == calculateTreeDuration(memoizedTreeDurations, n)
              IN [ret |-> [selfTime |-> actualDuration[n], totalTime |-> t.total,
                           renderCount |-> 1],
                  memo |-> t.memo]
    ELSE LET key == getTimingKey(n) IN
         IF key = Null THEN [ret |-> NoTimings, memo |-> memoizedTreeDurations]
         ELSE IF componentTimings[key] = Null
              THEN [ret |-> NoTimings, memo |-> memoizedTreeDurations]
         ELSE LET timing == timingData[componentTimings[key]]
              IN [ret |-> [selfTime |-> timing.duration, totalTime |-> timing.totalTime,
                           renderCount |-> timing.renderCount],
                  memo |-> memoizedTreeDurations]

\* the part of the state the hooks and their callbacks work on
PerfState == [timings |-> timingData, map |-> componentTimings, memo |-> memoizedTreeDurations,
              pending |-> pendingUpdates, processing |-> isProcessingUpdates,
              queue |-> frameCallbacks]

SetPerf(st) ==
    /\ timingData' = st.timings
    /\ componentTimings' = st.map
    /\ memoizedTreeDurations' = st.memo
    /\ pendingUpdates' = st.pending
    /\ isProcessingUpdates' = st.processing
    /\ frameCallbacks' = st.queue

\* a callback given to requestAnimationFrame: the one of processPendingUpdates
\* ("process"), or the one of diffedHook / commitHook with the key, the
\* TimingData object and the duration it captured
Callback(kind, key, timing, duration) ==
    [kind |-> kind, key |-> key, timing |-> timing, duration |-> duration]

\* processPendingUpdates()
processPendingUpdates(st) ==
    IF st.processing THEN st
    ELSE [st EXCEPT !.processing = TRUE,
                    !.queue = Append(@, Callback("process", Null, Null, 0))]

\* a duration taken as startTime - now
elapsedReversed(t, startTime) == startTime - t

\* now - timing.startTime
elapsed(t, startTime) == t - startTime

\* vnodeHook(vnode) at time t; changed tells whether the props, the state or
\* the parent differ from the ones remembered (they do on a mount). A new
\* TimingData object replaces the one of the key.
vnodeHook(st, n, changed, t) ==
    LET key == getTimingKey(n) IN
    IF key = Null THEN st
    ELSE LET existing == st.map[key]
         IN IF ~(changed \/ existing = Null) THEN st
            ELSE LET timing ==
                       [startTime |-> t,
                        duration |-> IF existing = Null THEN 0 ELSE st.timings[existing].duration,
                        totalTime |-> IF existing = Null THEN 0 ELSE st.timings[existing].totalTime,
                        isRendering |-> TRUE,
                        renderCount |-> (IF existing = Null THEN 0
                                         ELSE st.timings[existing].renderCount) + 1]
                 IN processPendingUpdates(
                        [st EXCEPT !.timings = Append(@, timing),
                                   !.map[key] = Len(st.timings) + 1,
                                   !.pending = @ \cup {key}])

\* diffedHook(vnode) ("diffed") and commitHook(vnode) ("commit") at time t
timingHook(st, kind, n, t) ==
    LET key == getTimingKey(n) IN
    IF key = Null THEN st
    ELSE LET timing == st.map[key]
         IN IF timing # Null /\ st.timings[timing].isRendering
            THEN [st EXCEPT !.queue = Append(@, Callback(kind, key, timing,
                                                  elapsed(t, st.timings[timing].startTime)))]
            ELSE st

\* one callback runs
runCallback(st, cb) ==
    IF cb.kind = "process"
    THEN [st EXCEPT !.memo = [k \in PKeys |-> IF k \in st.pending /\ st.map[k] # Null
                                              THEN Absent ELSE st.memo[k]],
                    !.pending = {},
                    !.processing = FALSE]
    ELSE LET s1 == [st EXCEPT !.timings[cb.timing] =
                                  [@ EXCEPT !.duration = cb.duration,
                                            !.totalTime = @ + cb.duration,
                                            !.isRendering = FALSE],
                              !.map[cb.key] = cb.timing]
         IN IF cb.kind = "diffed"
            THEN [s1 EXCEPT !.memo[cb.key] = Absent]
            ELSE processPendingUpdates([s1 EXCEPT !.pending = @ \cup {cb.key}])

RECURSIVE runCallbacks(_, _)
\* the callbacks of one animation frame run in the order they were
\* requested; what they request runs in a later frame
runCallbacks(st, q) ==
    IF q = <<>> THEN st ELSE runCallbacks(runCallback(st, Head(q)), Tail(q))

\* options.vnode is called for node n
VNodeHook(n, changed) ==
    /\ Len(timingData) < timingCap
    /\ Len(frameCallbacks) < MaxCallbacks
    /\ SetPerf(vnodeHook(PerfState, n, changed, now))
    /\ UNCHANGED <<pShape, timingCap, actualDuration, now>>

\* options.diffed or options.__c is called for node n
TimingHook(kind, n) ==
    /\ Len(frameCallbacks) < MaxCallbacks
    /\ SetPerf(timingHook(PerfState, kind, n, now))
    /\ UNCHANGED <<pShape, timingCap, actualDuration, now>>

HookCall ==
    \E n \in PNodes :
        \/ \E changed \in BOOLEAN : VNodeHook(n, changed)
        \/ \E kind \in {"diffed", "commit"} : TimingHook(kind, n)

\* An animation frame runs the callbacks requested so far.
AnimationFrame ==
    /\ frameCallbacks # <<>>
    /\ SetPerf(runCallbacks([PerfState EXCEPT !.queue = <<>>], frameCallbacks))
    /\ UNCHANGED <<pShape, timingCap, actualDuration, now>>

\* clearPerformanceData()
ClearPerformanceData ==
    /\ componentTimings' = [k \in PKeys |-> Null]
    /\ memoizedTreeDurations' = [k \in PKeys |-> Absent]
    /\ pendingUpdates' = {}
    /\ UNCHANGED <<pShape, timingCap, actualDuration, now, timingData, isProcessingUpdates,
                   frameCallbacks>>

\* Time passes.
ClockTick ==
    /\ now < MaxTime
    /\ now' = now + 1
    /\ UNCHANGED <<pShape, timingCap, actualDuration, timingData, componentTimings, memoizedTreeDurations,
                   pendingUpdates, isProcessingUpdates, frameCallbacks>>

\* The host renders node n and reports d as its actualDuration.
HostRender ==
    \E n \in PNodes, d \in 1..MaxDuration :
        /\ actualDuration[n] # d
        /\ actualDuration' = [actualDuration EXCEPT ![n] = d]
            /\ UNCHANGED <<pShape, timingCap, now, timingData, componentTimings, memoizedTreeDurations,
                       pendingUpdates, isProcessingUpdates, frameCallbacks>>

\* getTimings(node) is called (node is Null for a call without a node); what
\* it returns is getTimings(node).ret, what it leaves behind is the memo table
GetTimings ==
    \E n \in PNodes \cup {Null} :
        /\ memoizedTreeDurations' = getTimings(n).memo
            /\ UNCHANGED <<pShape, timingCap, actualDuration, now, timingData, componentTimings,
                       pendingUpdates, isProcessingUpdates, frameCallbacks>>

\* the hooks of options the module replaces
Slots == {"vnode", "diffed", "__c"}

\* initPerformanceMonitoring(): the three hooks of options are remembered
\* (bound, when there is one) and replaced
initPerformanceMonitoring(opts) ==
    [options |-> [s \in Slots |-> "monitor"], original |-> opts]

\* cleanupPerformanceMonitoring(): a hook of options is put back when one was
\* remembered
cleanupPerformanceMonitoring(opts, orig) ==
    [s \in Slots |-> IF orig[s] # "undefined" THEN orig[s] ELSE opts[s]]

\* the calls the hook of the host receives when vnodeHook, diffedHook or
\* commitHook runs for node n: none when getTimingKey gives no key (`if (!key)
\* return`), none when nothing was remembered, and none when what was
\* remembered is the monitor's own hook, whose re-entry flag is set
forwards(orig, n) ==
    IF getTimingKey(n) = Null THEN 0
    ELSE IF orig = "host" THEN 1
    ELSE 0

\* initPerformanceMonitoring() is called.
InitPerformanceMonitoring ==
    /\ options' = initPerformanceMonitoring(options).options
    /\ original' = initPerformanceMonitoring(options).original
    /\ UNCHANGED <<preHooks, hostCalls, invoked>>
    /\ UNCHANGED <<pShape, timingCap, actualDuration, now, timingData, componentTimings,
                   memoizedTreeDurations, pendingUpdates, isProcessingUpdates, frameCallbacks>>

\* cleanupPerformanceMonitoring() is called.
CleanupPerformanceMonitoring ==
    /\ options' = cleanupPerformanceMonitoring(options, original)
    /\ ClearPerformanceData
    /\ UNCHANGED <<preHooks, original, hostCalls, invoked>>

\* The host invokes options.vnode, options.diffed or options.__c with node n.
InvokeOption ==
    \E s \in Slots, n \in PNodes :
        /\ options[s] # "undefined"
        /\ invoked["vnode"] + invoked["diffed"] + invoked["__c"] < MaxInvocations
        /\ invoked' = [invoked EXCEPT ![s] = @ + 1]
        /\ IF options[s] = "host"
           THEN /\ hostCalls' = [hostCalls EXCEPT ![s] = @ + 1]
                /\ UNCHANGED <<pShape, timingCap, actualDuration, now, timingData,
                               componentTimings, memoizedTreeDurations, pendingUpdates,
                               isProcessingUpdates, frameCallbacks>>
           ELSE /\ hostCalls' = [hostCalls EXCEPT ![s] = @ + forwards(original[s], n)]
                /\ IF s = "vnode" THEN \E changed \in BOOLEAN : VNodeHook(n, changed)
                   ELSE TimingHook(IF s = "diffed" THEN "diffed" ELSE "commit", n)
        /\ UNCHANGED <<preHooks, options, original>>

\* the module was loaded (it calls initPerformanceMonitoring) where options
\* held pre
MonitoringInstalled(pre) ==
    /\ preHooks = pre
    /\ options = initPerformanceMonitoring(pre).options
    /\ original = initPerformanceMonitoring(pre).original
    /\ hostCalls = [s \in Slots |-> 0]
    /\ invoked = [s \in Slots |-> 0]

\* ------------------------------------------------------------------ focus highlight
Positions == 0..MaxPosition

\* what getRectMap may tell of the focused element
FocusRects == {<<x, y>> : x \in Positions, y \in Positions} \cup {<<>>}

\* lerp(start, end): Math.floor(start + (end - start) * 0.2)
lerp(start, end) == start + ((end - start) \div 5)

\* startAnimation(): a frame is requested unless the loop runs
startAnimation ==
    /\ isAnimating' = TRUE
    /\ animateFrames' = IF isAnimating THEN animateFrames ELSE animateFrames + 1

\* The contextmenu listener: the target is focused, the label is computed
\* when the target has a fiber, and the animation is started.
ContextMenu ==
    /\ animateFrames < MaxPendingFrames
    /\ moves < MaxMoves
    /\ moves' = moves + 1
    /\ focusedElement' = TRUE
    /\ \E named \in BOOLEAN : focusText' = (focusText \/ named)
    /\ focusRect' \in FocusRects
    /\ startAnimation
    /\ UNCHANGED prevXY

\* The focused element moves (the page scrolls or is resized), and the
\* listener's timer starts the animation.
MoveElement ==
    /\ focusedElement
    /\ moves < MaxMoves
    /\ animateFrames < MaxPendingFrames
    /\ moves' = moves + 1
    /\ \E r \in FocusRects : r # focusRect /\ focusRect' = r
    /\ startAnimation
    /\ UNCHANGED <<focusedElement, focusText, prevXY>>

\* draw(): whether the loop goes on, and prevX / prevY after the call
draw ==
    IF ~focusedElement \/ focusRect = <<>> THEN [continue |-> FALSE, prev |-> prevXY]
    ELSE LET interpolatedX == IF prevXY # <<>> THEN lerp(prevXY[1], focusRect[1]) ELSE focusRect[1]
             interpolatedY == IF prevXY # <<>> THEN lerp(prevXY[2], focusRect[2]) ELSE focusRect[2]
         IN [continue |-> prevXY # <<>> /\ (interpolatedX # focusRect[1] \/ interpolatedY # focusRect[2]),
             prev |-> IF focusText THEN <<interpolatedX, interpolatedY>> ELSE prevXY]

\* An animation frame runs animate().
Animate ==
    /\ animateFrames > 0
    /\ IF ~isAnimating
       THEN /\ animateFrames' = animateFrames - 1
            /\ UNCHANGED <<prevXY, isAnimating>>
       ELSE /\ prevXY' = draw.prev
            /\ isAnimating' = draw.continue
            /\ animateFrames' = IF draw.continue THEN animateFrames ELSE animateFrames - 1
    /\ UNCHANGED <<focusedElement, focusText, focusRect, moves>>

\* before an element is focused
FocusIdle ==
    /\ focusedElement = FALSE
    /\ focusText = FALSE
    /\ focusRect = <<0, 0>>
    /\ prevXY = <<>>
    /\ isAnimating = FALSE
    /\ animateFrames = 0
    /\ moves = 0

\* ------------------------------------------------------------------ interactive elements
\* the elements: a node name of each case of the switch (and one of none), the
\* attributes the function reads, a role of ARIA_ROLES ("button"), another
\* role or none, and whether the element has a parent element
Elements ==
    [nodeName : {"LABEL", "BUTTON", "INPUT", "A", "DIV"},
     disabled : BOOLEAN, ariaDisabled : BOOLEAN, ariaHidden : BOOLEAN,
     hidden : BOOLEAN, attr : BOOLEAN,
     role : {"none", "button", "note"},
     parentElement : BOOLEAN]

ARIA_ROLES == {"button"}

RECURSIVE isElementARIAOperable(_, _)
\* isElementARIAOperable(element), called with depth calls on the stack: the
\* engine throws a RangeError when the stack is full
isElementARIAOperable(element, depth) ==
    IF depth > MaxStackDepth THEN "RangeError"
    ELSE IF element.disabled \/ element.ariaDisabled \/ element.ariaHidden THEN "false"
    ELSE IF element.parentElement THEN isElementARIAOperable(element, depth + 1)
    ELSE "true"

\* isElementARIAInteractive(element)
isElementARIAInteractive(element) ==
    IF element.role = "none" THEN "false"
    ELSE IF element.role \in ARIA_ROLES THEN isElementARIAOperable(element, 2)
    ELSE "false"

\* condition && isElementARIAOperable(element), then `return true` or the
\* break to isElementARIAInteractive
interactiveIf(condition, element) ==
    IF ~condition THEN isElementARIAInteractive(element)
    ELSE LET operable == isElementARIAOperable(element, 1)
         IN IF operable = "false" THEN isElementARIAInteractive(element) ELSE operable

\* isElementInteractive(element)
isElementInteractive(element) ==
    CASE element.nodeName = "LABEL" -> isElementARIAOperable(element, 1)
      [] element.nodeName = "BUTTON" -> interactiveIf(~element.disabled, element)
      [] element.nodeName = "INPUT" ->
            interactiveIf(~(element.hidden /\ element.disabled), element)
      [] element.nodeName = "A" -> interactiveIf(element.attr, element)
      [] OTHER -> isElementARIAInteractive(element)

\* isElementInteractive is called with the element.
CallInteractive ==
    /\ ~iDone
    /\ iDone' = TRUE
    /\ iResult' = isElementInteractive(iElement)
    /\ UNCHANGED iElement

\* The next element is looked at.
NextElement ==
    /\ iDone
    /\ iDone' = FALSE
    /\ iResult' = "none"
    /\ iElement' \in Elements

InteractiveInit ==
    /\ iElement \in Elements
    /\ iDone = FALSE
    /\ iResult = "none"

InteractiveIdle ==
    /\ iElement = [nodeName |-> "DIV", disabled |-> FALSE, ariaDisabled |-> FALSE,
                   ariaHidden |-> FALSE, hidden |-> FALSE, attr |-> FALSE, role |-> "none",
                   parentElement |-> FALSE]
    /\ iDone = FALSE
    /\ iResult = "none"

\* ------------------------------------------------------------------ DevTools hook
\* the renderers that register: the one of createDevToolsRenderer and others
Renderers == {"preact-in-bippy", "react-dom", "react-native"}

\* inject(renderer) of the hook createDevToolsHook creates: the id is ++i, and
\* the renderer is stored in the renderers of the enclosing call
inject(renderer) ==
    LET nextID == devI + 1
    IN /\ devI' = nextID
       /\ devRenderers' = Append(devRenderers, renderer)
       /\ devInjected' = Append(devInjected, [renderer |-> renderer, id |-> nextID])
       /\ UNCHANGED devHookRenderers

\* initDevTools(): createDevToolsHook() creates the hook unless there is one,
\* and the renderer of createDevToolsRenderer is injected.
InitDevTools ==
    /\ Len(devInjected) < MaxInjections
    /\ devtoolsHook' = TRUE
    /\ inject("preact-in-bippy")

\* Another renderer registers with the hook.
RendererInject ==
    /\ devtoolsHook
    /\ Len(devInjected) < MaxInjections
    /\ \E r \in Renderers \ {"preact-in-bippy"} : inject(r)
    /\ UNCHANGED devtoolsHook

\* before createDevToolsHook is called: the Map of the hook to be, and the Map
\* and the counter of the call, are empty
DevIdle ==
    /\ devtoolsHook = FALSE
    /\ devI = 0
    /\ devRenderers = <<>>
    /\ devHookRenderers = <<>>
    /\ devInjected = <<>>

\* ------------------------------------------------------------------ global hook
\* getRDTHook(onActive): onActive is called when there is a hook, and a hook is
\* installed with onActive when there is none.
GetRDTHook ==
    /\ rdtGets < MaxHookCalls
    /\ rdtGets' = rdtGets + 1
    /\ IF rdtHook # "absent"
       THEN /\ onActiveCalls' = onActiveCalls + 1
            /\ UNCHANGED <<rdtHook, rdtOnActive, rdtActive, rdtRenderers>>
       ELSE /\ rdtHook' = "bippy"
            /\ rdtOnActive' = TRUE
            /\ rdtActive' = FALSE
            /\ rdtRenderers' = <<>>
            /\ UNCHANGED onActiveCalls

\* A renderer calls inject of the hook installRDTHook made: it is stored under
\* the next id, and the first injection marks the instrumentation active and
\* calls the onActive the hook was installed with.
RdtInject ==
    /\ rdtHook = "bippy"
    /\ Len(rdtRenderers) < MaxInjections
    /\ \E r \in Renderers : rdtRenderers' = Append(rdtRenderers, r)
    /\ rdtActive' = TRUE
    /\ onActiveCalls' = IF ~rdtActive /\ rdtOnActive THEN onActiveCalls + 1 ELSE onActiveCalls
    /\ UNCHANGED <<rdtHook, rdtOnActive, rdtGets>>

\* after the module loaded and before getRDTHook is called: no hook, the
\* hook the module installs for itself (without onActive) where it runs under
\* Node with a DOM, or a hook of React DevTools
RdtInit ==
    /\ rdtHook \in {"absent", "bippy", "foreign"}
    /\ rdtOnActive = FALSE
    /\ rdtActive = FALSE
    /\ rdtRenderers = <<>>
    /\ rdtGets = 0
    /\ onActiveCalls = 0

RdtIdle ==
    /\ rdtHook = "absent"
    /\ rdtOnActive = FALSE
    /\ rdtActive = FALSE
    /\ rdtRenderers = <<>>
    /\ rdtGets = 0
    /\ onActiveCalls = 0

AuxIdle == FocusIdle /\ InteractiveIdle /\ DevIdle /\ RdtIdle

\* no node was profiled by the host
NoDurations == [n \in PNodes |-> 0]

\* the timing tables of a module just loaded
PerfData ==
    /\ now = 0
    /\ timingData = <<>>
    /\ componentTimings = [k \in PKeys |-> Null]
    /\ memoizedTreeDurations = [k \in PKeys |-> Absent]
    /\ pendingUpdates = {}
    /\ isProcessingUpdates = FALSE
    /\ frameCallbacks = <<>>

PerfRest ==
    /\ PerfData
    /\ AuxIdle
    /\ MonitoringInstalled([s \in Slots |-> "undefined"])

\* the nodes: node 1 is of the component, the others are of the component
\* too, of an arrow function, or host nodes
PerfShapes == {sh \in [PNodes -> {"component", "arrow", "host"}] :
                  /\ sh[1] = "component"
                  /\ \A n \in PNodes \ {1, 2} : sh[n] = "host"}

\* the timing statistics and the hooks of options of a module left alone
TimingIdle ==
    /\ PerfData
    /\ MonitoringInstalled([s \in Slots |-> "undefined"])
    /\ actualDuration = NoDurations
    /\ timingCap = MaxTimings
    /\ pShape = [n \in PNodes |-> "component"]

PerfIdle ==
    /\ PerfRest
    /\ actualDuration = NoDurations
    /\ timingCap = MaxTimings
    /\ pShape = [n \in PNodes |-> "component"]

\* ------------------------------------------------------------------ specifications
NextVisitor == VisitCommit /\ UNCHANGED <<hookVars, scanVars, geoVars, perfVars>>

InitVisitor == VisitorInit /\ HookIdle /\ ScanIdle /\ GeoIdle /\ PerfIdle

SpecVisitor == InitVisitor /\ [][NextVisitor]_vars

NextHook ==
    \/ InstrumentCall /\ UNCHANGED <<visitorVars, scanVars, geoVars, perfVars>>
    \/ HostNotify /\ UNCHANGED <<visitorVars, scanVars, geoVars, perfVars>>

InitHook == HookInit /\ VisitorIdle /\ ScanIdle /\ GeoIdle /\ PerfIdle

SpecHook == InitHook /\ [][NextHook]_vars

\* The geometry functions, each called once on arguments of its domain.
NextGeometry ==
    \/ MergeCall /\ UNCHANGED <<visitorVars, hookVars, scanVars, perfVars>>
    \/ RectMapCall /\ UNCHANGED <<visitorVars, hookVars, scanVars, perfVars>>

InitGeometry == GeoInit /\ VisitorIdle /\ HookIdle /\ ScanIdle /\ PerfIdle

SpecGeometry == InitGeometry /\ [][NextGeometry]_vars

\* The timing hooks, their animation-frame callbacks, the host's renders and
\* the calls of getTimings and clearPerformanceData.
NextPerf ==
    \/ HookCall /\ UNCHANGED <<visitorVars, hookVars, scanVars, geoVars, optVars, auxVars>>
    \/ AnimationFrame /\ UNCHANGED <<visitorVars, hookVars, scanVars, geoVars, optVars, auxVars>>
    \/ ClearPerformanceData /\ UNCHANGED <<visitorVars, hookVars, scanVars, geoVars, optVars, auxVars>>
    \/ ClockTick /\ UNCHANGED <<visitorVars, hookVars, scanVars, geoVars, optVars, auxVars>>
    \/ GetTimings /\ UNCHANGED <<visitorVars, hookVars, scanVars, geoVars, optVars, auxVars>>

InitPerf ==
    /\ PerfRest
    /\ pShape \in PerfShapes
    /\ actualDuration \in {NoDurations, [n \in PNodes |-> IF n = 1 THEN 0 ELSE 1]}
    /\ timingCap = MaxTimings
    /\ VisitorIdle
    /\ HookIdle
    /\ ScanIdle
    /\ GeoIdle

SpecPerf == InitPerf /\ [][NextPerf]_vars

\* The hooks of options: further calls of initPerformanceMonitoring, the
\* cleanup, the host's invocations and the animation frames.
NextOptions ==
    \/ InitPerformanceMonitoring /\ UNCHANGED <<visitorVars, hookVars, scanVars, geoVars, auxVars>>
    \/ CleanupPerformanceMonitoring /\ UNCHANGED <<visitorVars, hookVars, scanVars, geoVars, auxVars>>
    \/ InvokeOption /\ UNCHANGED <<visitorVars, hookVars, scanVars, geoVars, auxVars>>
    \/ AnimationFrame /\ UNCHANGED <<visitorVars, hookVars, scanVars, geoVars, optVars, auxVars>>

InitOptions ==
    /\ PerfData
    /\ AuxIdle
    /\ \E pre \in [Slots -> {"undefined", "host"}] : MonitoringInstalled(pre)
    /\ pShape \in PerfShapes
    /\ actualDuration = NoDurations
    /\ timingCap = MaxTimings
    /\ VisitorIdle
    /\ HookIdle
    /\ ScanIdle
    /\ GeoIdle

SpecOptions == InitOptions /\ [][NextOptions]_vars

\* The focus highlight: an element is focused, it moves, and the animation
\* frames run.
NextFocus ==
    \/ ContextMenu /\ UNCHANGED <<visitorVars, hookVars, scanVars, geoVars, timingVars, optVars, interVars, devVars, rdtVars>>
    \/ MoveElement /\ UNCHANGED <<visitorVars, hookVars, scanVars, geoVars, timingVars, optVars, interVars, devVars, rdtVars>>
    \/ Animate /\ UNCHANGED <<visitorVars, hookVars, scanVars, geoVars, timingVars, optVars, interVars, devVars, rdtVars>>

InitFocus == PerfIdle /\ VisitorIdle /\ HookIdle /\ ScanIdle /\ GeoIdle

\* every requested animation frame runs
FairFocus == WF_vars(Animate /\ UNCHANGED <<visitorVars, hookVars, scanVars, geoVars, timingVars, optVars, interVars, devVars, rdtVars>>)

SpecFocus == InitFocus /\ [][NextFocus]_vars /\ FairFocus

\* isElementInteractive on its own, for one element after another.
NextInteractive ==
    \/ CallInteractive /\ UNCHANGED <<visitorVars, hookVars, scanVars, geoVars, timingVars, optVars, focusVars, devVars, rdtVars>>
    \/ NextElement /\ UNCHANGED <<visitorVars, hookVars, scanVars, geoVars, timingVars, optVars, focusVars, devVars, rdtVars>>

InitInteractive ==
    /\ TimingIdle
    /\ FocusIdle
    /\ InteractiveInit
    /\ DevIdle
    /\ RdtIdle
    /\ VisitorIdle
    /\ HookIdle
    /\ ScanIdle
    /\ GeoIdle

SpecInteractive == InitInteractive /\ [][NextInteractive]_vars

\* The DevTools hook: initDevTools and the renderers that register.
NextDevTools ==
    \/ InitDevTools /\ UNCHANGED <<visitorVars, hookVars, scanVars, geoVars, timingVars, optVars, focusVars, interVars, rdtVars>>
    \/ RendererInject /\ UNCHANGED <<visitorVars, hookVars, scanVars, geoVars, timingVars, optVars, focusVars, interVars, rdtVars>>

InitDevToolsHook == PerfIdle /\ VisitorIdle /\ HookIdle /\ ScanIdle /\ GeoIdle

SpecDevTools == InitDevToolsHook /\ [][NextDevTools]_vars

\* The global hook: calls of getRDTHook(onActive) and the renderers that
\* register.
NextRdt ==
    \/ GetRDTHook /\ UNCHANGED <<visitorVars, hookVars, scanVars, geoVars, timingVars, optVars, focusVars, interVars, devVars>>
    \/ RdtInject /\ UNCHANGED <<visitorVars, hookVars, scanVars, geoVars, timingVars, optVars, focusVars, interVars, devVars>>

InitRdt ==
    /\ TimingIdle
    /\ FocusIdle
    /\ InteractiveIdle
    /\ DevIdle
    /\ RdtInit
    /\ VisitorIdle
    /\ HookIdle
    /\ ScanIdle
    /\ GeoIdle

SpecRdt == InitRdt /\ [][NextRdt]_vars

\* The tree durations: the host's renders and the calls of getTimings, beside
\* the hooks of one render.
NextTree ==
    \/ HookCall /\ UNCHANGED <<visitorVars, hookVars, scanVars, geoVars, optVars, auxVars>>
    \/ AnimationFrame /\ UNCHANGED <<visitorVars, hookVars, scanVars, geoVars, optVars, auxVars>>
    \/ ClearPerformanceData /\ UNCHANGED <<visitorVars, hookVars, scanVars, geoVars, optVars, auxVars>>
    \/ HostRender /\ UNCHANGED <<visitorVars, hookVars, scanVars, geoVars, optVars, auxVars>>
    \/ GetTimings /\ UNCHANGED <<visitorVars, hookVars, scanVars, geoVars, optVars, auxVars>>

InitTree ==
    /\ PerfRest
    /\ pShape \in PerfShapes
    /\ actualDuration = NoDurations
    /\ timingCap = MaxTreeTimings
    /\ VisitorIdle
    /\ HookIdle
    /\ ScanIdle
    /\ GeoIdle

SpecTree == InitTree /\ [][NextTree]_vars

\* The overlay at work: load, activation, commits, flushes and paint frames.
Next ==
    \/ ModuleLoad /\ UNCHANGED <<visitorVars, hookVars, geoVars, perfVars>>
    \/ OnActive /\ UNCHANGED <<visitorVars, hookVars, geoVars, perfVars>>
    \/ HostCommit /\ UNCHANGED <<visitorVars, hookVars, geoVars, perfVars>>
    \/ FlushTick /\ UNCHANGED <<visitorVars, hookVars, geoVars, perfVars>>
    \/ RectsResolve /\ UNCHANGED <<visitorVars, hookVars, geoVars, perfVars>>
    \/ Draw /\ UNCHANGED <<visitorVars, hookVars, geoVars, perfVars>>

Init ==
    /\ ScanInit
    /\ scrollCap = MaxScroll
    /\ kinds = ScanKinds
    /\ blueprintCap = MaxBlueprints
    /\ reportable = OneBox
    /\ commitInputs = AnyCommit
    /\ HookIdle
    /\ GeoIdle
    /\ PerfIdle

Spec == Init /\ [][Next]_vars

\* The overlay's whole life, stop and inspect mode included, around one
\* named component.
NextLifecycle ==
    \/ ModuleLoad /\ UNCHANGED <<visitorVars, hookVars, geoVars, perfVars>>
    \/ OnActive /\ UNCHANGED <<visitorVars, hookVars, geoVars, perfVars>>
    \/ Stop /\ UNCHANGED <<visitorVars, hookVars, geoVars, perfVars>>
    \/ ToggleInspectCall /\ UNCHANGED <<visitorVars, hookVars, geoVars, perfVars>>
    \/ HostCommit /\ UNCHANGED <<visitorVars, hookVars, geoVars, perfVars>>
    \/ FlushTick /\ UNCHANGED <<visitorVars, hookVars, geoVars, perfVars>>
    \/ RectsResolve /\ UNCHANGED <<visitorVars, hookVars, geoVars, perfVars>>
    \/ Draw /\ UNCHANGED <<visitorVars, hookVars, geoVars, perfVars>>

InitLifecycle ==
    /\ ScanInit
    /\ scrollCap = MaxScroll
    /\ kinds = LifecycleKinds
    /\ blueprintCap = MaxLifecycleBlueprints
    /\ reportable = OneBox
    /\ commitInputs = AnyCommit
    /\ HookIdle
    /\ GeoIdle
    /\ PerfIdle

SpecLifecycle == InitLifecycle /\ [][NextLifecycle]_vars

\* Flushing and painting around one named component whose element moves.
NextPaint ==
    \/ ModuleLoad /\ UNCHANGED <<visitorVars, hookVars, geoVars, perfVars>>
    \/ OnActive /\ UNCHANGED <<visitorVars, hookVars, geoVars, perfVars>>
    \/ HostCommit /\ UNCHANGED <<visitorVars, hookVars, geoVars, perfVars>>
    \/ FlushTick /\ UNCHANGED <<visitorVars, hookVars, geoVars, perfVars>>
    \/ RectsResolve /\ UNCHANGED <<visitorVars, hookVars, geoVars, perfVars>>
    \/ Draw /\ UNCHANGED <<visitorVars, hookVars, geoVars, perfVars>>

InitPaint ==
    /\ ScanInit
    /\ scrollCap = MaxScroll
    /\ kinds = LifecycleKinds
    /\ blueprintCap = MaxLifecycleBlueprints
    /\ reportable = MovingBox
    /\ commitInputs = VisibleCommit
    /\ HookIdle
    /\ GeoIdle
    /\ PerfIdle

SpecPaint == InitPaint /\ [][NextPaint]_vars

\* The overlay around one named component, with every outcome of the worker
\* setup.
NextFallback ==
    \/ ModuleLoad /\ UNCHANGED <<visitorVars, hookVars, geoVars, perfVars>>
    \/ OnActive /\ UNCHANGED <<visitorVars, hookVars, geoVars, perfVars>>
    \/ OnActiveFailing /\ UNCHANGED <<visitorVars, hookVars, geoVars, perfVars>>
    \/ HostCommit /\ UNCHANGED <<visitorVars, hookVars, geoVars, perfVars>>
    \/ FlushTick /\ UNCHANGED <<visitorVars, hookVars, geoVars, perfVars>>
    \/ RectsResolve /\ UNCHANGED <<visitorVars, hookVars, geoVars, perfVars>>
    \/ Draw /\ UNCHANGED <<visitorVars, hookVars, geoVars, perfVars>>

SpecFallback == InitLifecycle /\ [][NextFallback]_vars

\* The main-thread paint loop among its callers: flushes, paint frames,
\* inspect-mode hovers and resizes, around one named component.
NextEvents ==
    \/ ModuleLoad /\ UNCHANGED <<visitorVars, hookVars, geoVars, perfVars>>
    \/ OnActive /\ UNCHANGED <<visitorVars, hookVars, geoVars, perfVars>>
    \/ ToggleInspectCall /\ UNCHANGED <<visitorVars, hookVars, geoVars, perfVars>>
    \/ HoverEvent /\ UNCHANGED <<visitorVars, hookVars, geoVars, perfVars>>
    \/ ResizeEvent /\ UNCHANGED <<visitorVars, hookVars, geoVars, perfVars>>
    \/ ResizeTimer /\ UNCHANGED <<visitorVars, hookVars, geoVars, perfVars>>
    \/ HostCommit /\ UNCHANGED <<visitorVars, hookVars, geoVars, perfVars>>
    \/ FlushTick /\ UNCHANGED <<visitorVars, hookVars, geoVars, perfVars>>
    \/ RectsResolve /\ UNCHANGED <<visitorVars, hookVars, geoVars, perfVars>>
    \/ Draw /\ UNCHANGED <<visitorVars, hookVars, geoVars, perfVars>>

InitEvents ==
    /\ ScanInit
    /\ scrollCap = MaxScroll
    /\ kinds = LifecycleKinds
    /\ blueprintCap = MaxLifecycleBlueprints
    /\ reportable = OneBox
    /\ commitInputs = VisibleCommit
    /\ HookIdle
    /\ GeoIdle
    /\ PerfIdle

SpecEvents == InitEvents /\ [][NextEvents]_vars

\* The resize and scroll listeners and their timers, beside the flushes and
\* the paint frames of one named component.
NextTimers ==
    \/ ModuleLoad /\ UNCHANGED <<visitorVars, hookVars, geoVars, perfVars>>
    \/ OnActive /\ UNCHANGED <<visitorVars, hookVars, geoVars, perfVars>>
    \/ ResizeEvent /\ UNCHANGED <<visitorVars, hookVars, geoVars, perfVars>>
    \/ ResizeTimer /\ UNCHANGED <<visitorVars, hookVars, geoVars, perfVars>>
    \/ ScrollEvent /\ UNCHANGED <<visitorVars, hookVars, geoVars, perfVars>>
    \/ ScrollTimer /\ UNCHANGED <<visitorVars, hookVars, geoVars, perfVars>>
    \/ ScrollFrame /\ UNCHANGED <<visitorVars, hookVars, geoVars, perfVars>>
    \/ HostCommit /\ UNCHANGED <<visitorVars, hookVars, geoVars, perfVars>>
    \/ FlushTick /\ UNCHANGED <<visitorVars, hookVars, geoVars, perfVars>>
    \/ RectsResolve /\ UNCHANGED <<visitorVars, hookVars, geoVars, perfVars>>
    \/ Draw /\ UNCHANGED <<visitorVars, hookVars, geoVars, perfVars>>

SpecTimers == InitEvents /\ [][NextTimers]_vars

\* The pending table while the tree grows: commits that mount node 3 late,
\* flushes and their resolutions.
NextGrow ==
    \/ ModuleLoad /\ UNCHANGED <<visitorVars, hookVars, geoVars, perfVars>>
    \/ OnActive /\ UNCHANGED <<visitorVars, hookVars, geoVars, perfVars>>
    \/ HostCommit /\ UNCHANGED <<visitorVars, hookVars, geoVars, perfVars>>
    \/ FlushTick /\ UNCHANGED <<visitorVars, hookVars, geoVars, perfVars>>
    \/ RectsResolve /\ UNCHANGED <<visitorVars, hookVars, geoVars, perfVars>>
    \/ Draw /\ UNCHANGED <<visitorVars, hookVars, geoVars, perfVars>>

InitGrow ==
    /\ ScanInit
    /\ scrollCap = MaxScroll
    /\ kinds = ScanKinds
    /\ blueprintCap = MaxBlueprints
    /\ reportable = OneBox
    /\ commitInputs = GrowingCommit
    /\ HookIdle
    /\ GeoIdle
    /\ PerfIdle

SpecGrow == InitGrow /\ [][NextGrow]_vars

\* The flush timer and the observer at work around a component that renders
\* no host element: the interval keeps firing, the observer reports on what
\* it observes, and the paint frames run.
NextStall ==
    \/ ModuleLoad /\ UNCHANGED <<visitorVars, hookVars, geoVars, perfVars>>
    \/ OnActive /\ UNCHANGED <<visitorVars, hookVars, geoVars, perfVars>>
    \/ HostCommit /\ UNCHANGED <<visitorVars, hookVars, geoVars, perfVars>>
    \/ FlushTick /\ UNCHANGED <<visitorVars, hookVars, geoVars, perfVars>>
    \/ RectsResolve /\ UNCHANGED <<visitorVars, hookVars, geoVars, perfVars>>
    \/ Draw /\ UNCHANGED <<visitorVars, hookVars, geoVars, perfVars>>

InitStall ==
    /\ ScanInit
    /\ scrollCap = MaxScroll
    /\ kinds = StallKinds
    /\ blueprintCap = MaxBlueprints
    /\ reportable = OneBox
    /\ commitInputs = GrowingCommit
    /\ HookIdle
    /\ GeoIdle
    /\ PerfIdle

\* setInterval keeps calling back, the intersection observer calls back once
\* it observes an element, and the browser runs the requested frames
FairStall ==
    /\ WF_vars(FlushTick /\ UNCHANGED <<visitorVars, hookVars, geoVars, perfVars>>)
    /\ WF_vars(RectsResolve /\ UNCHANGED <<visitorVars, hookVars, geoVars, perfVars>>)
    /\ WF_vars(Draw /\ UNCHANGED <<visitorVars, hookVars, geoVars, perfVars>>)

SpecStall == InitStall /\ [][NextStall]_vars /\ FairStall

\* The handlers that dispatch to the worker or to the main thread: flushes,
\* the scroll timer and inspect hovers, with and without a worker.
NextDispatch ==
    \/ ModuleLoad /\ UNCHANGED <<visitorVars, hookVars, geoVars, perfVars>>
    \/ OnActive /\ UNCHANGED <<visitorVars, hookVars, geoVars, perfVars>>
    \/ ToggleInspectCall /\ UNCHANGED <<visitorVars, hookVars, geoVars, perfVars>>
    \/ HoverEvent /\ UNCHANGED <<visitorVars, hookVars, geoVars, perfVars>>
    \/ ScrollEvent /\ UNCHANGED <<visitorVars, hookVars, geoVars, perfVars>>
    \/ ScrollTimer /\ UNCHANGED <<visitorVars, hookVars, geoVars, perfVars>>
    \/ ScrollFrame /\ UNCHANGED <<visitorVars, hookVars, geoVars, perfVars>>
    \/ HostCommit /\ UNCHANGED <<visitorVars, hookVars, geoVars, perfVars>>
    \/ FlushTick /\ UNCHANGED <<visitorVars, hookVars, geoVars, perfVars>>
    \/ RectsResolve /\ UNCHANGED <<visitorVars, hookVars, geoVars, perfVars>>
    \/ Draw /\ UNCHANGED <<visitorVars, hookVars, geoVars, perfVars>>

InitDispatch ==
    /\ ScanInit
    /\ scrollCap = MaxScroll
    /\ kinds = LifecycleKinds
    /\ blueprintCap = MaxDispatchBlueprints
    /\ reportable = OneBox
    /\ commitInputs = VisibleCommit
    /\ HookIdle
    /\ GeoIdle
    /\ PerfIdle

SpecDispatch == InitDispatch /\ [][NextDispatch]_vars

\* The scroll listener on a longer page: scroll events, the timer and the
\* updateScroll frames, beside the flushes and paint frames of one blueprint.
NextScroll ==
    \/ ModuleLoad /\ UNCHANGED <<visitorVars, hookVars, geoVars, perfVars>>
    \/ OnActive /\ UNCHANGED <<visitorVars, hookVars, geoVars, perfVars>>
    \/ ScrollEvent /\ UNCHANGED <<visitorVars, hookVars, geoVars, perfVars>>
    \/ ScrollTimer /\ UNCHANGED <<visitorVars, hookVars, geoVars, perfVars>>
    \/ ScrollFrame /\ UNCHANGED <<visitorVars, hookVars, geoVars, perfVars>>
    \/ HostCommit /\ UNCHANGED <<visitorVars, hookVars, geoVars, perfVars>>
    \/ FlushTick /\ UNCHANGED <<visitorVars, hookVars, geoVars, perfVars>>
    \/ RectsResolve /\ UNCHANGED <<visitorVars, hookVars, geoVars, perfVars>>
    \/ Draw /\ UNCHANGED <<visitorVars, hookVars, geoVars, perfVars>>

InitScroll ==
    /\ ScanInit
    /\ kinds = LifecycleKinds
    /\ blueprintCap = MaxDispatchBlueprints
    /\ reportable = OneBox
    /\ commitInputs = VisibleCommit
    /\ scrollCap = MaxScrollFar
    /\ HookIdle
    /\ GeoIdle
    /\ PerfIdle

SpecScroll == InitScroll /\ [][NextScroll]_vars

\* The control surface alone: load, activation, stop, inspect mode and the
\* commits of the host (which run cleanup once the overlay is stopped).
NextControl ==
    \/ ModuleLoad /\ UNCHANGED <<visitorVars, hookVars, geoVars, perfVars>>
    \/ OnActive /\ UNCHANGED <<visitorVars, hookVars, geoVars, perfVars>>
    \/ Stop /\ UNCHANGED <<visitorVars, hookVars, geoVars, perfVars>>
    \/ ToggleInspectCall /\ UNCHANGED <<visitorVars, hookVars, geoVars, perfVars>>
    \/ HostCommit /\ UNCHANGED <<visitorVars, hookVars, geoVars, perfVars>>

SpecControl == InitLifecycle /\ [][NextControl]_vars

\* ================================================================== claims
\* ------------------------------------------------------------------ visitor
\* the last commit was traversed by the visitor
Traversed == vCommits > 0 /\ ~wasMounted(vTree)

Reported == {vLog[i] : i \in 1..Len(vLog)}

\* onRender threw during the last visit
Thrown == \E i \in 1..Len(vLog) : vLog[i] \in vThrows

RECURSIVE IsAncestor(_, _, _)
\* a is a proper ancestor of b in tree t
IsAncestor(t, a, b) ==
    /\ t.parent[b] # 0
    /\ (t.parent[b] = a \/ IsAncestor(t, a, t.parent[b]))

InSubtree(t, a, b) == a = b \/ IsAncestor(t, a, b)

\* C4: on a commit the visitor traverses, onRender is called at most once per
\* node, a node is reported after its parent, siblings are reported in child
\* order, the reports of a node's subtree are contiguous (the whole subtree
\* comes before the next sibling's subtree), and when no callback throws
\* every node of the tree is reported.
C4_PreOrderExactlyOnce ==
    Traversed =>
        /\ \A i, j \in 1..Len(vLog) : i # j => vLog[i] # vLog[j]
        /\ \A i \in 1..Len(vLog) :
              vTree.parent[vLog[i]] # 0 =>
                  \E k \in 1..(i - 1) : vLog[k] = vTree.parent[vLog[i]]
        /\ \A i, j \in 1..Len(vLog) :
              (i < j /\ vTree.parent[vLog[i]] = vTree.parent[vLog[j]]) => vLog[i] < vLog[j]
        /\ \A i, j, k \in 1..Len(vLog) :
              (i < j /\ j < k /\ ~InSubtree(vTree, vLog[i], vLog[j]))
                  => ~InSubtree(vTree, vLog[i], vLog[k])
        /\ (~Thrown => Reported = Nodes)

\* C4 witness: a traversed commit of a branching tree whose pre-order is not
\* the order of the node identities, every node reported
C4_Witness ==
    /\ Traversed
    /\ Len(vLog) = NumNodes
    /\ \E i \in 1..(Len(vLog) - 1) : vLog[i] > vLog[i + 1]
    /\ \E n \in Nodes : Sibling(vTree, n) # Null

\* C5: on the first commit the visitor observes, every node reachable from
\* the root (Fiber or VNode) is reported to onRender.
C5_BootstrapVisitsAll ==
    (vCommits = 1 /\ ~Thrown) => Reported = Nodes

\* C6: on every commit after the first, only nodes that did work in that
\* commit are reported to onRender.
C6_OnlyWorkReported ==
    vCommits = 2 => Reported \subseteq vWork

\* C7: when onRender throws for a node, the error goes to onError and every
\* remaining node of the traversal is still reported.
C7_VisitNotAborted ==
    (Traversed /\ vHasOnError /\ Thrown) => (vErrors = 1 /\ Reported = Nodes)

\* C8: with an onError handler an exception of onRender never reaches the
\* caller and onError receives it exactly once; without a handler the
\* exception is rethrown to the caller.
C8_ErrorBoundary ==
    vCommits > 0 =>
        /\ vHasOnError => (~vPropagated /\ vErrors = IF Thrown THEN 1 ELSE 0)
        /\ ~vHasOnError => ((vPropagated <=> Thrown) /\ vErrors = 0)

\* C8 witness: onRender threw in a visit made with an onError handler
C8_Witness ==
    vCommits > 0 /\ Thrown /\ vHasOnError /\ vErrors = 1 /\ ~vPropagated /\ Len(vLog) > 1

\* ------------------------------------------------------------------ hook
\* the handlers instrument registered for onCommitFiberRoot, in order
Registered(ic) ==
    LET RECURSIVE Regs(_)
        Regs(k) == IF k = 0 THEN <<>>
                   ELSE Regs(k - 1) \o
                        (IF "onCommitFiberRoot" \in ic[k]
                         THEN <<Callable(k, "onCommitFiberRoot")>> ELSE <<>>)
    IN Regs(Len(ic))

\* p, h1, ..., hk for the hook as it is now
ExpectedChain ==
    (IF hook0["onCommitFiberRoot"] # Null
     THEN <<Callable(0, "onCommitFiberRoot")>> ELSE <<>>) \o Registered(instrCalls)

NamedNodes == {f \in Nodes : kinds[f] = "named"}

\* the outline records emitted for node f so far
RecordsOf(f) == {i \in 1..Len(records) : records[i].id = f}

\* C1: a named composite node that outlineFiber was called on n >= 1 times
\* since its blueprint was last consumed has exactly one pending Blueprint
\* (one entry of the table, one key), and its count is n.
C1_OneBlueprintCountsCalls ==
    \A f \in NamedNodes :
        pendingCalls[f] >= 1 =>
            /\ f \in DOMAIN blueprintMap
            /\ blueprintMap[f].count = pendingCalls[f]
            /\ Cardinality({i \in 1..Len(blueprintMapKeys) : blueprintMapKeys[i] = f}) = 1

\* C1 witness: a node rendered twice in one flush window
C1_Witness ==
    \E f \in NamedNodes :
        /\ pendingCalls[f] = 2
        /\ f \in DOMAIN blueprintMap
        /\ blueprintMap[f].count = 2

\* C2: no Blueprint is emitted in more than one outline record, whichever
\* flushOutlines call emits it.
C2_EmittedAtMostOnce ==
    \A i, j \in 1..Len(records) : i # j => records[i].gen # records[j].gen

\* C2 witness: the Blueprints of one flush window, the only ones created so
\* far, were consumed and one was emitted by a flushOutlines call, while
\* another call, started before that one resolved, still waits for its
\* rectangles
C2_Witness ==
    /\ created = Cardinality(NamedNodes)
    /\ Len(records) >= 1
    /\ Len(inflight) = 1
    /\ records[1].id \in inflight[1]

\* C3: a named composite node outlined by the bootstrap traversal that did
\* no work since is in the flushed output once, not more.
C3_BootstrapExactlyOnce ==
    \A f \in bootIdle \cap NamedNodes : Cardinality(RecordsOf(f)) <= 1

\* C10: once stop() was called on a loaded and activated overlay, no listener
\* of the overlay is registered, no flush timer runs and no animation frame
\* is pending.
C10_StopReleasesAll ==
    (loaded /\ activated /\ canvas /\ stopFlag) =>
        /\ \A l \in ListenerNames : listeners[l] = 0
        /\ intervals = 0
        /\ pendingFrames = 0

\* C21: the key set holds no node twice and holds exactly the nodes that have
\* a Blueprint in the pending table (a table entry is one Blueprint: a node
\* never has two).
C21_KeysMatchBlueprints ==
    /\ \A i, j \in 1..Len(blueprintMapKeys) :
          i # j => blueprintMapKeys[i] # blueprintMapKeys[j]
    /\ Range(blueprintMapKeys) = DOMAIN blueprintMap
    /\ \A f, g \in DOMAIN blueprintMap : f # g => blueprintMap[f].gen # blueprintMap[g].gen

\* C21 witness: after a flush consumed the first blueprints, two nodes have a
\* pending Blueprint again while another flush waits
C21_Witness ==
    /\ Len(records) >= 1
    /\ Len(blueprintMapKeys) = 2
    /\ created >= 4
    /\ Len(inflight) >= 1

\* the nodes outlineFiber returns early for
Unnamed == {f \in Nodes : ~isCompositeFiber(f) \/ getDisplayName(f) = Null}

\* C22: outlineFiber on a node that is not composite, or on a composite node
\* without a display name, returns the pending table, the key set and every
\* count as they were; such a node never has a Blueprint or a key, whatever
\* the commits reported.
C22_UnnamedIsNoOp ==
    \A f \in Unnamed :
        /\ \A didCommit \in {0, 1} : outlineFiber(AggState, f, didCommit) = AggState
        /\ f \notin DOMAIN blueprintMap
        /\ f \notin Range(blueprintMapKeys)
        /\ pendingCalls[f] = 0

\* C22 witness: the visitor reported a host node and an anonymous composite
\* to outlineFiber in a commit that recorded the named ones
C22_Witness ==
    /\ booted
    /\ \E f \in bootIdle : ~isCompositeFiber(f)
    /\ \E f \in bootIdle : isCompositeFiber(f) /\ getDisplayName(f) = Null
    /\ DOMAIN blueprintMap = NamedNodes
    /\ NamedNodes # {}

\* ------------------------------------------------------------------ stop and inspect mode
\* this step is a call of stop or of toggleInspectMode
ControlStep == control' # control /\ control'.op # "none"

\* C11: a second stop() in a row leaves the stop flag, the registered
\* listeners, the flush timer, the overlay host element, the inspect state and
\* the active outlines exactly as the first call left them.
C11_StopIdempotent ==
    [][ (ControlStep /\ control'.op = "stop" /\ control'.n = 2) =>
            /\ stopFlag /\ stopFlag'
            /\ UNCHANGED <<listeners, intervals, hostAttached, inspectActive, hasCleanedUp,
                           activeOutlines, canvas, worker, ctx>>
      ]_vars

\* C11 witness: stop() was called twice in a row on an activated overlay
\* whose inspect mode is on
C11_Witness ==
    control.op = "stop" /\ control.n = 2 /\ stopFlag /\ canvas /\ inspectActive

\* C12: once stop() was called, hasStopped() stays true and no commit
\* notification, flush tick or paint frame records a blueprint, emits an
\* outline record or changes the active outline set.
C12_StopGatesWork ==
    [][ stopFlag =>
            /\ stopFlag'
            /\ \/ ControlStep
               \/ /\ created' = created
                  /\ \A f \in Nodes : pendingCalls'[f] <= pendingCalls[f]
                  /\ records' = records
                  /\ activeOutlines' = activeOutlines
      ]_vars

\* C13: with the canvas present, toggleInspectMode(e) sets isActive to e when
\* e is given and to its negation when e is omitted; toggleInspectMode(true)
\* twice in a row leaves inspect mode active, toggleInspectMode() twice in a
\* row restores the value from before the two calls.
C13_ToggleInspect ==
    [][ (ControlStep /\ canvas) =>
            /\ control'.op = "on" => inspectActive'
            /\ control'.op = "off" => ~inspectActive'
            /\ control'.op = "toggle" => (inspectActive' = ~inspectActive)
            /\ (control'.op = "toggle" /\ control'.n = 2) => (inspectActive' = control'.before)
      ]_vars

\* C13 witness: toggleInspectMode() was called twice in a row while inspect
\* mode was on, with the canvas present
C13_Witness ==
    /\ canvas
    /\ control = [op |-> "toggle", n |-> 2, before |-> TRUE]
    /\ inspectActive
    /\ listeners["mouseover"] = 1

\* ------------------------------------------------------------------ geometry
\* C14: mergeRects of a non-empty list is the smallest rectangle that
\* contains every rectangle of the list: x is the least left, y the least
\* top, x + width the greatest right, y + height the greatest bottom (each
\* attained by a rectangle of the list); a list of one rectangle gives that
\* rectangle; {0,0,10,10} and {5,5,20,20} give {0,0,25,25}.
C14_MergeIsBoundingBox ==
    /\ mergeRects(<<DOMRect(0, 0, 10, 10), DOMRect(5, 5, 20, 20)>>) = DOMRect(0, 0, 25, 25)
    /\ (gPhase = "merge" /\ gDone) =>
          LET I == 1..Len(gRects) IN
          /\ \A i \in I : /\ gResult.x <= gRects[i].x
                           /\ gResult.y <= gRects[i].y
                           /\ gRects[i].x + gRects[i].width <= gResult.x + gResult.width
                           /\ gRects[i].y + gRects[i].height <= gResult.y + gResult.height
          /\ \E i \in I : gResult.x = gRects[i].x
          /\ \E i \in I : gResult.y = gRects[i].y
          /\ \E i \in I : gResult.x + gResult.width = gRects[i].x + gRects[i].width
          /\ \E i \in I : gResult.y + gResult.height = gRects[i].y + gRects[i].height
          /\ (Len(gRects) = 1 => gResult = gRects[1])

\* C14 witness: two rectangles were merged into one that is neither of them
C14_Witness ==
    /\ gPhase = "merge" /\ gDone
    /\ Len(gRects) = 2
    /\ gResult # gRects[1] /\ gResult # gRects[2]
    /\ gResult.width > gRects[1].width /\ gResult.height > gRects[2].height

\* C15: getRectMap resolves to a map whose keys are exactly the given
\* elements reported as intersecting with a non-zero width and a non-zero
\* height, each mapped to its reported rectangle.
C15_RectMapKeepsVisible ==
    (gPhase = "rects" /\ gDone) =>
        /\ DOMAIN gResult = {e \in DOMAIN gReport : /\ gReport[e].isIntersecting
                                                     /\ gReport[e].rect.width > 0
                                                     /\ gReport[e].rect.height > 0}
        /\ \A e \in DOMAIN gResult : gResult[e] = gReport[e].rect

\* C15 witness: of two elements, one visible and one clipped though it has
\* an extent, the map holds the visible one only
C15_Witness ==
    /\ gPhase = "rects" /\ gDone
    /\ DOMAIN gReport = {1, 2}
    /\ DOMAIN gResult = {1}
    /\ ~gReport[2].isIntersecting /\ gReport[2].rect.width > 0 /\ gReport[2].rect.height > 0

\* ------------------------------------------------------------------ outlines
\* the positions of the outlines of id in the active set
OutlinesOf(outlines, id) == {k \in 1..Len(outlines) : outlines[k].id = id}

\* the outline records this step emitted
Emitted == {k \in 1..Len(records') : k > Len(records)}

\* C16: the ids of the active outlines are pairwise distinct, and a flush on
\* the main thread that delivers a record for an id already in the set leaves
\* one outline for it, with frame 0, whose count grew only if the record
\* counts more renders than the outline did.
C16_RefreshKeepsOneOutline ==
    [][ /\ \A j, k \in 1..Len(activeOutlines') :
              j # k => activeOutlines'[j].id # activeOutlines'[k].id
        /\ \A r \in Emitted :
              \A j \in OutlinesOf(activeOutlines, records'[r].id) :
                  /\ ~worker
                  => /\ Cardinality(OutlinesOf(activeOutlines', records'[r].id)) = 1
                     /\ \A k \in OutlinesOf(activeOutlines', records'[r].id) :
                           /\ activeOutlines'[k].frame = 0
                           /\ activeOutlines'[k].count > activeOutlines[j].count
                                  => records'[r].count > activeOutlines[j].count
      ]_vars

\* C16 witness: beside another outline, an outline that a paint frame had
\* aged was refreshed by a second flush of its id
C16_Witness ==
    /\ Len(activeOutlines) = 2
    /\ \E k \in 1..Len(activeOutlines) :
          /\ activeOutlines[k].refreshed
          /\ activeOutlines[k].frame = 0
          /\ Cardinality(RecordsOf(activeOutlines[k].id)) = 2
    /\ \E k \in 1..Len(activeOutlines) : activeOutlines[k].frame > 0

C19_WorkerPacking ==
    [][ (worker /\ Len(inflight') < Len(inflight)) =>
            LET k == Len(records') - Len(records)
                rec(i) == records'[Len(records) + i]
            IN /\ posted'.type = "draw-outlines"
               /\ Len(posted'.data) = 7 * k
               /\ Len(posted'.names) = k
               /\ \A i \in 0..(k - 1) :
                     /\ posted'.data[7 * i + 1] = fround(rec(i + 1).id)
                     /\ posted'.data[7 * i + 2] = fround(rec(i + 1).count)
                     /\ posted'.data[7 * i + 3] = fround(rec(i + 1).x)
                     /\ posted'.data[7 * i + 4] = fround(rec(i + 1).y)
                     /\ posted'.data[7 * i + 5] = fround(rec(i + 1).width)
                     /\ posted'.data[7 * i + 6] = fround(rec(i + 1).height)
                     /\ posted'.data[7 * i + 7] = fround(rec(i + 1).didCommit)
                     /\ posted'.names[i + 1] = rec(i + 1).name
      ]_vars

\* C19 witness: a message for two blueprints, the second one committed and
\* rendered twice
C19_Witness ==
    /\ worker
    /\ Len(posted.names) = 2
    /\ posted.names[1] # posted.names[2]
    /\ posted.data[OUTLINE_ARRAY_SIZE + 2] = 2
    /\ posted.data[2 * OUTLINE_ARRAY_SIZE] = 1

\* C20: when a step of the worker setup throws, a 2D context is initialised,
\* and every record a later flush emits refreshes or adds an outline of the
\* main-thread active set.
C20_WorkerFallback ==
    [][ setup' \in SetupOutcomes \ {"unsupported", "ok"} =>
            /\ ctx'
            /\ \A r \in Emitted :
                  \E k \in OutlinesOf(activeOutlines', records'[r].id) :
                      activeOutlines'[k].frame = 0
      ]_vars

\* ------------------------------------------------------------------ timing statistics
\* C23: getTimings returns for every node and for no node at all, and the
\* selfTime and the totalTime it returns are never negative, whatever hooks,
\* animation frames and clears came before.
C23_TimingsNonNegative ==
    \A n \in PNodes \cup {Null} :
        /\ getTimings(n).ret.selfTime >= 0
        /\ getTimings(n).ret.totalTime >= 0

\* C23 witness: a component rendered twice has a measured duration, beside a
\* profiled Fiber whose tree duration was computed and memoized
C23_Witness ==
    /\ getTimings(1).ret.renderCount = 2
    /\ getTimings(1).ret.selfTime > 0
    /\ getTimings(1).ret.totalTime > getTimings(1).ret.selfTime
    /\ \E n \in PNodes : /\ actualDuration[n] # 0
                         /\ memoizedTreeDurations[n] # Absent
                         /\ getTimings(n).ret.totalTime > getTimings(n).ret.selfTime

RECURSIVE FreshTreeDuration(_)
\* the tree duration of a node computed from the durations as they are
FreshTreeDuration(n) ==
    IF n = Null THEN 0
    ELSE actualDuration[n] + FreshTreeDuration(PChild(n)) + FreshTreeDuration(PSibling(n))

\* C24: the totalTime getTimings returns for a Fiber is its actualDuration
\* plus the tree durations of its child and of its sibling, computed from the
\* durations as they are at the time of the call.
C24_TotalTimeIsFresh ==
    \A n \in PNodes :
        actualDuration[n] # 0 => getTimings(n).ret.totalTime = FreshTreeDuration(n)

\* C25: unless clearPerformanceData removed the data, no call of a hook and no
\* animation frame makes the renderCount getTimings returns for a node smaller.
C25_RenderCountMonotone ==
    [][ (\A k \in PKeys : componentTimings[k] # Null => componentTimings'[k] # Null)
            => \A n \in PNodes :
                  (getTimings(n).ret.renderCount)' >= getTimings(n).ret.renderCount
      ]_vars

\* ------------------------------------------------------------------ flushes
\* C26: a resolving flushOutlines call removes a pending Blueprint without
\* emitting a record for it only when the call observed every element of the
\* Blueprint (and the observer reported none of them visible); a Blueprint
\* recorded while the call waited is not dropped unseen.
C26_DroppedOnlyWhenInvisible ==
    [][ \A f \in DOMAIN blueprintMap :
            (/\ f \notin DOMAIN blueprintMap'
             /\ \A r \in Emitted : records'[r].gen # blueprintMap[f].gen)
            => \E i \in 1..Len(inflight) :
                  /\ inflight' = SubSeq(inflight, 1, i - 1) \o SubSeq(inflight, i + 1, Len(inflight))
                  /\ Range(blueprintMap[f].elements) \subseteq inflight[i]
      ]_vars

\* C27: while the flush timer runs, pending blueprints are eventually
\* consumed: every flushOutlines call gets its rectangles and runs to its end.
C27_FlushCompletes ==
    (intervals > 0 /\ blueprintMapKeys # <<>>) ~> (blueprintMapKeys = <<>>)

\* ------------------------------------------------------------------ paint loop
\* C28: on the main-thread path at most one draw callback is pending.
C28_OnePendingDraw ==
    (canvas /\ ~worker) => pendingFrames <= 1

\* this step ran draw() on a non-empty active set, or ran a pending draw
PaintStep ==
    \/ pendingFrames' < pendingFrames
    \/ activeOutlines # <<>> /\ activeOutlines' = drawCanvas(activeOutlines)

\* C29: after a paint frame a frame is scheduled (animationFrameId is set) if
\* and only if an outline is still within its decay horizon; otherwise
\* animationFrameId is cleared and no frame remains scheduled.
C29_RescheduleIffLive ==
    [][ (PaintStep /\ ctx /\ canvas) =>
            /\ animationFrameId' <=> (activeOutlines' # <<>>)
            /\ activeOutlines' # <<>> => pendingFrames' >= 1
            /\ activeOutlines' = <<>> => pendingFrames' = 0
      ]_vars

\* ------------------------------------------------------------------ timers
\* C30: at most one resize timer and at most one scroll timer is in flight,
\* and the scheduled flag of a class is set exactly while its timer is in
\* flight: an event that arrives while the timer waits schedules none, an
\* event that arrives when none waits schedules one.
C30_OneTimerPerClass ==
    /\ resizeTimers <= 1
    /\ scrollTimers <= 1
    /\ isResizeScheduled <=> resizeTimers = 1
    /\ isScrollScheduled <=> scrollTimers = 1
    /\ coalesced["resize"] > 0 => resizeTimers = 1
    /\ coalesced["scroll"] > 0 => scrollTimers = 1

\* C30 witness: after a resize timer fired and redrew an outline, a resize
\* timer and a scroll timer wait, and a further event of each class arrived
\* meanwhile
C30_Witness ==
    /\ resizeTimers = 1
    /\ scrollTimers = 1
    /\ coalesced["resize"] >= 1
    /\ coalesced["scroll"] >= 1
    /\ \E k \in 1..Len(activeOutlines) : activeOutlines[k].frame >= 1

\* ------------------------------------------------------------------ dispatch
\* this step ran the end of a flushOutlines call, the scroll timer or
\* handleInspectHover, or posted a message, or requested a frame
DispatchStep ==
    \/ Len(inflight') < Len(inflight)
    \/ scrollTimers' < scrollTimers
    \/ hoveredRect' # hoveredRect
    \/ posted' # posted
    \/ pendingFrames' > pendingFrames
    \/ Len(scrollFrames') > Len(scrollFrames)

\* C31: with a worker, flushOutlines, the scroll timer and the hover handler
\* leave the main-thread active outlines alone and request no main-thread
\* frame; without a worker they post no message.
C31_WorkerOrMainThread ==
    [][ DispatchStep =>
            /\ worker => UNCHANGED <<activeOutlines, animationFrameId, pendingFrames, scrollFrames>>
            /\ ~worker => posted' = posted
      ]_vars

\* C31 witness: with a worker, a scroll message was posted after outline data
\* had been recorded for it and a hover had been handled
C31_Witness ==
    /\ worker
    /\ posted = WorkerMessage("scroll")
    /\ records # <<>>
    /\ hoveredRect # <<>>

\* ------------------------------------------------------------------ timing updates
\* C33: the duration measured for a render is added to the totalTime of its
\* TimingData once: in a step a totalTime stays, or grows by the duration
\* the object now holds.
C33_DurationAddedOnce ==
    [][ \A i \in 1..Len(timingData) :
            \/ timingData'[i].totalTime = timingData[i].totalTime
            \/ /\ timingData[i].isRendering
               /\ timingData'[i].totalTime = timingData[i].totalTime + timingData'[i].duration
      ]_vars

\* C34: a VNode for which getTimings reports renderCount 0 (as it does for
\* every VNode after clearPerformanceData) is reported with renderCount 0
\* until the vnode hook records a render, that is creates a TimingData.
C34_ClearedUntilNextRender ==
    [][ \A n \in PNodes :
            (/\ actualDuration[n] = 0
             /\ getTimings(n).ret.renderCount = 0
             /\ (getTimings(n).ret.renderCount)' # 0)
            => Len(timingData') > Len(timingData)
      ]_vars

\* ------------------------------------------------------------------ options
\* C32: an invocation of the monitor's vnode, diffed or commit hook with a
\* typed vnode calls the hook options held before the module loaded, once.
C32_ForwardsOnce ==
    [][ \A s \in Slots :
            (/\ invoked'[s] = invoked[s] + 1
             /\ options[s] = "monitor"
             /\ preHooks[s] = "host")
            => hostCalls'[s] = hostCalls[s] + 1
      ]_vars

\* C35: whenever the monitor's hooks are installed, by one or by several
\* calls of initPerformanceMonitoring, cleanupPerformanceMonitoring leaves in
\* options what it held before the module loaded.
C35_CleanupRestores ==
    (\A s \in Slots : options[s] = "monitor")
        => cleanupPerformanceMonitoring(options, original) = preHooks

\* ------------------------------------------------------------------ scroll deltas
\* C36 as stated: whenever no scroll timer waits, the deltas delivered so far
\* add up to the offset of the page now minus its offset (0) when the overlay
\* was created.
C36_DeltasSumWhenNoTimer ==
    scrollTimers = 0 => scrollDelivered = scrollY

\* C36, amended: whenever no scroll timer waits and no updateScroll frame is
\* requested, the deltas delivered so far add up to the offset of the page
\* now minus its offset (0) when the overlay was created.
C36_DeltasSumWhenSettled ==
    (scrollTimers = 0 /\ scrollFrames = <<>>) => scrollDelivered = scrollY

\* C36 witness: on the main-thread path the page is as far from where it was
\* as it gets, every delta was given to updateScroll while an outline was
\* shown, and nothing is left waiting
C36_Witness ==
    /\ scrollTimers = 0
    /\ scrollFrames = <<>>
    /\ scrollY = MaxScrollFar
    /\ scrollDelivered = scrollY
    /\ ~worker
    /\ activeOutlines # <<>>

\* ------------------------------------------------------------------ focus highlight
\* C37: once the focused element has stopped moving, a running animation loop
\* eventually stops.
C37_AnimationStops ==
    (moves = MaxMoves /\ isAnimating) ~> ~isAnimating

\* ------------------------------------------------------------------ interactive elements
\* C38: isElementInteractive returns a boolean for every element.
C38_ReturnsBoolean ==
    iDone => iResult \in {"true", "false"}

\* ------------------------------------------------------------------ DevTools hook
\* C39: the k-th call of inject returned k, and the hook's renderers map holds
\* the renderer given under the id returned.
C39_InjectRegisters ==
    \A k \in 1..Len(devInjected) :
        /\ devInjected[k].id = k
        /\ k \in DOMAIN devHookRenderers
        /\ devHookRenderers[k] = devInjected[k].renderer

\* ------------------------------------------------------------------ global hook
\* C40: whatever calls of getRDTHook(onActive) and injections are made, the
\* onActive callback is invoked at most once.
C40_ActiveOnce ==
    onActiveCalls <= 1

====
